---------------------------- MODULE Spec2Model ----------------------------
(***************************************************************************)
(* A model of the dependency-resolution core of pipenv (pipenv/utils.py):  *)
(* the two-pass orchestrator resolve_deps, the transitive expander         *)
(* Resolver.get_deps_from_req, hash collection and result cleaning, and    *)
(* the lockfile merger driven by venv_resolve_deps; further the hash cache *)
(* under concurrent runs, a subprocess under resolve and                   *)
(* interrupt_handled_subprocess, and the helpers pep423_name and           *)
(* translate_markers.                                                      *)
(*                                                                         *)
(* Each of these is a sub-machine with its own variables and its own       *)
(* specification; a specification keeps the other sub-machines idle.       *)
(***************************************************************************)
EXTENDS Integers, Sequences, FiniteSets, TLC

VARIABLES
    \* ---- resolve_deps (two-pass orchestrator) ----
    pc,           \* position inside resolve_deps
    rdIn,         \* the call's arguments: deps, python, which("python"), VCS deps
    environ,      \* os.environ restricted to the variables a resolution touches
    environ0,     \* os.environ when resolve_deps was called
    stage,        \* stage of the running actually_resolve_deps
    attempts,     \* number of actually_resolve_deps calls started
    outcome,      \* outcome[k]: how attempt k ended
    exitStatus,   \* <<status>> passed to sys.exit, or NoExit
    completed,    \* stages the running actually_resolve_deps has completed
    req_dir,      \* the working directory: passes whose constraints file it holds
    lookups,      \* the index_lookup and markers_lookup dicts of resolve_deps
    started       \* per pass started: req_dir and lookups as the pass found them

rdRun == <<completed, req_dir, lookups, started>>

rdVars == <<pc, rdIn, environ, environ0, stage, attempts, outcome, exitStatus, rdRun>>

VARIABLES
    \* ---- Resolver.get_deps_from_req (transitive expander) ----
    exIn,         \* the requirement handed in, resolve_vcs, and the outside world
    exOut         \* what the call produced, or NotCalled

exVars == <<exIn, exOut>>

VARIABLES
    \* ---- venv_resolve_deps (resolver subprocess and lockfile merger) ----
    vpc,          \* position inside venv_resolve_deps
    vIn,          \* deps, the Pipfile section, and what the resolver computes
    handoff,      \* the hand-off JSON file on disk
    lockfile,     \* the lockfile dict handed in, mutated in place
    lockfile0,    \* the lockfile when venv_resolve_deps was called
    vOut          \* return code, sys.exit status, exception, loaded results

lkVars == <<vpc, vIn, handoff, lockfile, lockfile0, vOut>>

VARIABLES
    \* ---- Resolver.resolve_hashes and Resolver.clean_results ----
    hpc,          \* position: hashing, cleaning, skipped, done
    hIn,          \* the resolved tree and the outside world of the run
    hcache,       \* the hash cache on disk: URL -> hash string
    hidx,         \* index of the next requirement of the running loop
    self_hashes,  \* self.hashes: requirement (by its index) -> set of hashes
    hresults,     \* results of clean_results, its values in insertion order
    hleft,        \* keys of self.skipped still to be cleaned
    self_results, \* self.results: None, or the requirements the solver returned
    resolved_tree \* self.resolved_tree

hVars == <<hpc, hIn, hcache, hidx, self_hashes, hresults, hleft, self_results, resolved_tree>>

VARIABLES
    \* ---- HashCacheMixin.get_hash called by concurrent resolution runs ----
    gpc,          \* per run: position inside get_hash
    glink,        \* per run: the link it was called with
    gvalue,       \* per run: the local hash_value
    gcache,       \* the hash cache directory the runs share: URL -> hash string
    gsets,        \* per URL: how many times self.set(url, ...) was called
    gret          \* per run: the digest returned

gVars == <<gpc, glink, gvalue, gcache, gsets, gret>>

VARIABLES
    \* ---- a subprocess under resolve / interrupt_handled_subprocess ----
    spc,          \* position of the parent
    smode,        \* which function runs the subprocess
    child,        \* the subprocess: none, running, exited
    crc,          \* return code of the subprocess
    cwritten,     \* lines the subprocess has written to stderr
    spipe,        \* lines waiting in the stderr pipe
    serr,         \* lines the parent has read
    ssignal,      \* signals the parent has sent to the subprocess
    swaited,      \* whether the parent has waited for the subprocess
    scancel,      \* the interrupt the parent received, or "none"
    sout,         \* how the parent left: returned, or the exception raised
    cio,          \* the subprocess's output: what it will write, what it has
                  \* written to stdout, the fill of the stdout pipe, and
                  \* whether it has closed stderr
    sstdout       \* c.stdout.read(): the state of the subprocess when the
                  \* parent called it, and the lines it got

sVars == <<spc, smode, child, crc, cwritten, spipe, serr, ssignal, swaited, scancel, sout,
          cio, sstdout>>

VARIABLES
    \* ---- calls of the pure helpers pep423_name and translate_markers ----
    fpc,          \* start, once, twice (pep423_name); returned, raised (translate_markers)
    fkind,        \* which helper is called
    fName,        \* the name handed to pep423_name
    fName1,       \* pep423_name(name)
    fName2,       \* pep423_name(pep423_name(name))
    fEntry,       \* the entry handed to translate_markers
    fOut,         \* what translate_markers returned
    fExc,         \* the exception the helper raised, or "none"
    fIreq,        \* the requirement, sources, finder and cache collect_hashes sees
    fHashes       \* what collect_hashes returned

VARIABLES
    \* ---- concurrent calls of mkdir_p ----
    mfs,          \* the file system: what is at each prefix of the path
    mcalls        \* per caller: its path, the frame of mkdir_p it is in, and
                  \* where in that frame it is

mVars == <<mfs, mcalls>>

VARIABLES
    \* ---- the temp_environ block of venv_resolve_deps ----
    tpc,          \* position: enter, body, finally, ended or raised
    tIn,          \* os.environ at entry and the arguments of venv_resolve_deps
    tenv,         \* os.environ
    tsnap,        \* the copy temp_environ keeps in its local `environ`
    tstep,        \* the next assignment of the block
    texc          \* the exception that ended the block, or "none"

tVars == <<tpc, tIn, tenv, tsnap, tstep, texc>>

fVars == <<fpc, fkind, fName, fName1, fName2, fEntry, fOut, fExc, fIreq, fHashes>>

vars == <<rdVars, exVars, lkVars, hVars, gVars, sVars, fVars, mVars, tVars>>

\* what the actions of one sub-machine leave alone
notRD == <<exVars, lkVars, hVars, gVars, sVars, fVars, mVars, tVars>>
notEx == <<rdVars, lkVars, hVars, gVars, sVars, fVars, mVars, tVars>>
notLk == <<rdVars, exVars, hVars, gVars, sVars, fVars, mVars, tVars>>
notH == <<rdVars, exVars, lkVars, gVars, sVars, fVars, mVars, tVars>>
notG == <<rdVars, exVars, lkVars, hVars, sVars, fVars, mVars, tVars>>
notS == <<rdVars, exVars, lkVars, hVars, gVars, fVars, mVars, tVars>>
notF == <<rdVars, exVars, lkVars, hVars, gVars, sVars, mVars, tVars>>
notM == <<rdVars, exVars, lkVars, hVars, gVars, sVars, fVars, tVars>>
notT == <<rdVars, exVars, lkVars, hVars, gVars, sVars, fVars, mVars>>

-----------------------------------------------------------------------------
(* Python values shared by the sub-machines *)

Absent == "<absent>"

\* bool(v) for an optional string
Truthy(v) == v # Absent /\ v # ""

\* dicts are functions whose domain is the set of keys; {} is <<>>
DictSet(d, k, v) == (k :> v) @@ d

DictDel(d, k) == [x \in DOMAIN d \ {k} |-> d[x]]

\* d.get(k, default)
DictGet(d, k, default) == IF k \in DOMAIN d THEN d[k] ELSE default

\* d.update(e)
DictUpdate(d, e) == e @@ d

\* strings whose characters matter are sequences of one-character strings
Lower(c) == CASE c = "A" -> "a" [] c = "B" -> "b" [] c = "C" -> "c" [] OTHER -> c

str_lower(s) == [i \in 1..Len(s) |-> Lower(s[i])]

str_replace(s, a, b) == [i \in 1..Len(s) |-> IF s[i] = a THEN b ELSE s[i]]

\* sub in s
Contains(s, sub) ==
    \E i \in 0..(Len(s) - Len(sub)) : SubSeq(s, i + 1, i + Len(sub)) = sub

VCS_LIST == {<<"g", "i", "t">>, <<"s", "v", "n">>, <<"h", "g">>, <<"b", "z", "r">>}

SCHEME_LIST == {<<"h", "t", "t", "p", ":", "/", "/">>,
                <<"h", "t", "t", "p", "s", ":", "/", "/">>,
                <<"f", "t", "p", ":", "/", "/">>,
                <<"f", "t", "p", "s", ":", "/", "/">>,
                <<"f", "i", "l", "e", ":", "/", "/">>}

\* pep423_name writing "_" for "-" and "-" for "_"
pep423_name_swapping(name) ==
    LET n == str_lower(name)
    IN  [i \in 1..Len(n) |-> IF n[i] = "_" THEN "-" ELSE IF n[i] = "-" THEN "_" ELSE n[i]]

pep423_name(name) ==
    LET n == str_lower(name)
    IN  IF \E i \in VCS_LIST \cup SCHEME_LIST : ~Contains(n, i)
        THEN str_replace(n, "_", "-")
        ELSE n

-----------------------------------------------------------------------------
(* Environment markers and translate_markers *)

\* a marker string is a sequence of `key == "val"` atoms joined by " or ";
\* q is the quote character around the value, <<>> is the empty string
NoMarker == <<>>

\* default_environment().keys(), as far as the model uses them
MarkerKeys == {"os_name", "python_version", "sys_platform"}

\* the strings of the model in ascending order, for sorted()
StrOrder == <<"3.7", "3.8", "extra", "linux", "os_name", "posix", "python_version",
              "sys_platform", "win32">>

StrRank(x) == CHOOSE i \in 1..Len(StrOrder) : StrOrder[i] = x

AtomLess(a, b) ==
    \/ StrRank(a.key) < StrRank(b.key)
    \/ a.key = b.key /\ StrRank(a.val) < StrRank(b.val)

\* s < t for two marker strings that str(Marker(..)) produced
RECURSIVE MarkerLess(_, _)
MarkerLess(s, t) ==
    IF t = <<>> THEN FALSE
    ELSE IF s = <<>> THEN TRUE
    ELSE IF Head(s) = Head(t) THEN MarkerLess(Tail(s), Tail(t))
    ELSE AtomLess(Head(s), Head(t))

\* Marker(s) raises InvalidMarker on a string that is no marker expression
IsValidMarker(m) == \A i \in 1..Len(m) : m[i].key \in MarkerKeys \cup {"extra"}

\* str(Marker(s)): every value is written in double quotes
MarkerStr(m) == [i \in 1..Len(m) |-> [m[i] EXCEPT !.q = "double"]]

\* s.replace('"', "'")
SingleQuoted(m) == [i \in 1..Len(m) |-> [m[i] EXCEPT !.q = "single"]]

\* 'extra' in marker
HasExtra(m) == \E i \in 1..Len(m) : m[i].key = "extra"

\* " or ".join(sorted(markers))
RECURSIVE JoinSorted(_)
JoinSorted(S) ==
    IF S = {} THEN <<>>
    ELSE LET least == CHOOSE x \in S : \A y \in S \ {x} : MarkerLess(x, y)
         IN  least \o JoinSorted(S \ {least})

\* f"{m} {entry}" for a marker key m whose value is `op 'val'`
KeyMarker(m, v) == <<[key |-> m, val |-> v.val, q |-> v.q]>>

\* a plain-string Pipfile entry such as "==1.0" or "*", as against a mapping
StrEntry(v) == [k \in {"<str>"} |-> v]

IsMapping(e) == "<str>" \notin DOMAIN e

\* the value None stored under "markers"
NoneMarker == <<[key |-> "<None>", val |-> "", q |-> ""]>>

\* bool(marker_str)
MarkerTruthy(m) == m # NoMarker /\ m # NoneMarker

\* the exception translate_markers(entry) raises, "none" when it returns
translate_markers_exc(entry) ==
    IF ~IsMapping(entry) THEN "TypeError"
    ELSE IF \/ /\ "markers" \in DOMAIN entry
               /\ MarkerTruthy(entry["markers"])
               /\ ~IsValidMarker(entry["markers"])
            \/ \E m \in DOMAIN entry \cap MarkerKeys : entry[m].op = ""
         THEN "InvalidMarker"
         ELSE "none"

\* translate_markers with `new_pipfile.pop(m)` left out
translate_markers_keeps_keys(entry) ==
    LET from_markers ==
            IF "markers" \in DOMAIN entry /\ MarkerTruthy(entry["markers"])
                                          /\ ~HasExtra(MarkerStr(entry["markers"]))
            THEN {MarkerStr(entry["markers"])}
            ELSE {}
        from_keys == {MarkerStr(KeyMarker(m, entry[m])) : m \in DOMAIN entry \cap MarkerKeys}
        marker_set == from_markers \cup from_keys
        new_pipfile == [k \in DOMAIN entry \ {"markers"} |-> entry[k]]
    IN  IF marker_set # {}
        THEN DictSet(new_pipfile, "markers", SingleQuoted(MarkerStr(JoinSorted(marker_set))))
        ELSE new_pipfile

\* translate_markers(pipfile_entry), when it does not raise
translate_markers(entry) ==
    LET from_markers ==
            IF "markers" \in DOMAIN entry /\ MarkerTruthy(entry["markers"])
                                          /\ ~HasExtra(MarkerStr(entry["markers"]))
            THEN {MarkerStr(entry["markers"])}
            ELSE {}
        from_keys == {MarkerStr(KeyMarker(m, entry[m])) : m \in DOMAIN entry \cap MarkerKeys}
        marker_set == from_markers \cup from_keys
        new_pipfile == [k \in DOMAIN entry \ ({"markers"} \cup MarkerKeys) |-> entry[k]]
    IN  IF marker_set # {}
        THEN DictSet(new_pipfile, "markers", SingleQuoted(MarkerStr(JoinSorted(marker_set))))
        ELSE new_pipfile

-----------------------------------------------------------------------------
(***************************************************************************)
(* resolve_deps                                                            *)
(***************************************************************************)

EnvNames == {"PIPENV_REQUESTED_PYTHON_VERSION", "PIP_PYTHON_PATH", "PIP_SRC",
             "PIP_SHIMS_BASE_MODULE"}

EnvInitValues == {Absent, "", "orig"}

\* os.environ[k] = v
SetEnv(env, k, v) == [env EXCEPT ![k] = v]

\* del os.environ[k], KeyError swallowed
DelEnv(env, k) == [env EXCEPT ![k] = Absent]

\* HackedPythonVersion.__enter__
HackedPythonVersion_enter(env, python_version, python_path) ==
    LET e1 == IF Truthy(python_version)
              THEN SetEnv(env, "PIPENV_REQUESTED_PYTHON_VERSION", python_version)
              ELSE env
    IN  IF Truthy(python_path) THEN SetEnv(e1, "PIP_PYTHON_PATH", python_path) ELSE e1

\* HackedPythonVersion.__exit__ : returns None, so an exception keeps propagating
HackedPythonVersion_exit(env) == DelEnv(env, "PIPENV_REQUESTED_PYTHON_VERSION")

\* locked_repository, entry to exit, around one VCS checkout
locked_repository(env) ==
    LET original_base == env["PIP_SHIMS_BASE_MODULE"]
        inside == SetEnv(DelEnv(env, "PIP_SHIMS_BASE_MODULE"),
                         "PIP_SHIMS_BASE_MODULE", "pipenv.patched.notpip")
    IN  IF Truthy(original_base)
        THEN SetEnv(inside, "PIP_SHIMS_BASE_MODULE", original_base)
        ELSE inside

\* the exception classes an attempt can end with
ExcKinds == {"RuntimeError", "ResolutionFailure", "RequirementError"}

\* pipenv.exceptions: ResolutionFailure and RequirementError are specific failure
\* types, distinct from the generic runtime failure class
IsRuntimeError(e) == e = "RuntimeError"

\* a handler that catches every exception class
except_any(e) == e \in ExcKinds

\* `except RuntimeError:` around each actually_resolve_deps call
except_RuntimeError(e) == IsRuntimeError(e)

NoExit == <<>>

\* the stages with resolve_constraints ahead of resolve_hashes
Stages_constraints_first ==
    <<"create", "resolve", "resolve_constraints", "resolve_hashes", "clean_results">>

Stages == <<"create", "resolve", "resolve_hashes", "resolve_constraints", "clean_results">>

\* what each stage of actually_resolve_deps can raise
StageRaises(s) ==
    CASE s = "create"  -> {"ResolutionFailure", "RequirementError", "RuntimeError"}
      [] s = "resolve" -> {"ResolutionFailure", "RuntimeError"}
      [] OTHER         -> {"RuntimeError"}

NoOutcome == [exc |-> "none", stage |-> "none"]
OkOutcome == [exc |-> "ok", stage |-> "clean_results"]

\* lines 1343-1344: index_lookup = {}; markers_lookup = {}
NoLookups == [index_lookup |-> <<>>, markers_lookup |-> <<>>]

\* what a stage writes into the lookups: Resolver.create -> get_metadata ->
\* parse_line records the index and the markers of a line that carries them
StageLookups(l, s) ==
    IF s = "create" /\ rdIn.flagged
    THEN [index_lookup |-> DictSet(l.index_lookup, "a-b", "private"),
          markers_lookup |-> DictSet(l.markers_lookup, "a-b", "sys_platform == 'linux'")]
    ELSE l

\* what a stage writes into req_dir: Resolver.resolve -> prepare_constraint_file
StageDir(d, s) == IF s = "resolve" THEN d \cup {attempts} ELSE d

RDInit ==
    /\ pc = "call"
    /\ rdIn \in [deps : {"empty", "some"}, vcs : BOOLEAN, flagged : BOOLEAN,
                 python : {"", "3.8"}, python_path : {Absent, "/venv/bin/python"}]
    /\ (rdIn.vcs \/ rdIn.flagged => rdIn.deps = "some")
    /\ environ \in [EnvNames -> EnvInitValues]
    /\ environ0 = environ
    /\ stage = 0
    /\ attempts = 0
    /\ outcome = <<NoOutcome, NoOutcome>>
    /\ exitStatus = NoExit
    /\ completed = <<>>
    /\ req_dir = {}
    /\ lookups = NoLookups
    /\ started = <<>>

RDIdle ==
    /\ pc = "idle"
    /\ rdIn = [deps |-> "empty", vcs |-> FALSE, flagged |-> FALSE, python |-> "",
               python_path |-> Absent]
    /\ environ = [n \in EnvNames |-> Absent]
    /\ environ0 = environ
    /\ stage = 0
    /\ attempts = 0
    /\ outcome = <<NoOutcome, NoOutcome>>
    /\ exitStatus = NoExit
    /\ completed = <<>>
    /\ req_dir = {}
    /\ lookups = NoLookups
    /\ started = <<>>

\* resolve_deps up to the first `with HackedPythonVersion`
RDCall ==
    /\ pc = "call"
    /\ environ' = IF ~Truthy(environ["PIP_SRC"])
                  THEN SetEnv(environ, "PIP_SRC", "virtualenv_src_location")
                  ELSE environ
    /\ pc' = IF rdIn.deps = "empty" THEN "returned" ELSE "enter1"
    /\ UNCHANGED <<rdIn, environ0, stage, attempts, outcome, exitStatus, rdRun, notRD>>

\* entering the `with HackedPythonVersion(...)` block of pass k and calling
\* actually_resolve_deps
RDEnter(k) ==
    /\ pc = (IF k = 1 THEN "enter1" ELSE "enter2")
    /\ environ' = IF k = 1
                  THEN HackedPythonVersion_enter(environ, rdIn.python, rdIn.python_path)
                  ELSE HackedPythonVersion_enter(environ, "sys.version_info", "sys.executable")
    /\ attempts' = attempts + 1
    /\ stage' = 1
    /\ pc' = (IF k = 1 THEN "attempt1" ELSE "attempt2")
    /\ completed' = <<>>
    /\ started' = Append(started, [req_dir |-> req_dir, lookups |-> lookups])
    /\ UNCHANGED <<rdIn, environ0, outcome, exitStatus, req_dir, lookups, notRD>>

\* environment effect of one stage: Resolver.create checks out the VCS deps
StageEnv(env, s) ==
    IF s = "create" /\ rdIn.vcs THEN locked_repository(env) ELSE env

\* one stage of actually_resolve_deps completes
RDStageOk(k) ==
    /\ pc = (IF k = 1 THEN "attempt1" ELSE "attempt2")
    /\ stage \in 1..Len(Stages)
    /\ environ' = StageEnv(environ, Stages[stage])
    /\ IF stage = Len(Stages)
       THEN /\ outcome' = [outcome EXCEPT ![k] = OkOutcome]
            /\ stage' = 0
            /\ pc' = (IF k = 1 THEN "exit1" ELSE "exit2")
       ELSE /\ stage' = stage + 1
            /\ UNCHANGED <<outcome, pc>>
    /\ completed' = Append(completed, Stages[stage])
    /\ lookups' = StageLookups(lookups, Stages[stage])
    /\ req_dir' = StageDir(req_dir, Stages[stage])
    /\ UNCHANGED <<rdIn, environ0, attempts, exitStatus, started, notRD>>

\* one stage of actually_resolve_deps raises
RDStageRaise(k) ==
    /\ pc = (IF k = 1 THEN "attempt1" ELSE "attempt2")
    /\ stage \in 1..Len(Stages)
    /\ \E e \in StageRaises(Stages[stage]) :
          outcome' = [outcome EXCEPT ![k] = [exc |-> e, stage |-> Stages[stage]]]
    /\ environ' = StageEnv(environ, Stages[stage])
    /\ stage' = 0
    /\ pc' = (IF k = 1 THEN "exit1" ELSE "exit2")
    /\ \E written \in BOOLEAN :
          /\ lookups' = IF written THEN StageLookups(lookups, Stages[stage]) ELSE lookups
          /\ req_dir' = IF written THEN StageDir(req_dir, Stages[stage]) ELSE req_dir
    /\ UNCHANGED <<rdIn, environ0, attempts, exitStatus, completed, started, notRD>>

\* end of pass 1: the except clause, then HackedPythonVersion.__exit__
RDExit1 ==
    /\ pc = "exit1"
    /\ environ' = HackedPythonVersion_exit(environ)
    /\ pc' = IF outcome[1].exc = "ok" THEN "returned"
             ELSE IF except_RuntimeError(outcome[1].exc) THEN "enter2"
             ELSE "raised"
    /\ UNCHANGED <<rdIn, environ0, stage, attempts, outcome, exitStatus, rdRun, notRD>>

\* end of pass 2: the except clause calls sys.exit(1)
RDExit2 ==
    /\ pc = "exit2"
    /\ environ' = HackedPythonVersion_exit(environ)
    /\ IF outcome[2].exc = "ok" THEN pc' = "returned" /\ UNCHANGED exitStatus
       ELSE IF except_RuntimeError(outcome[2].exc)
            THEN pc' = "exited" /\ exitStatus' = <<1>>
            ELSE pc' = "raised" /\ UNCHANGED exitStatus
    /\ UNCHANGED <<rdIn, environ0, stage, attempts, outcome, rdRun, notRD>>

RDEnded == pc \in {"returned", "raised", "exited"}

RDNext ==
    \/ RDCall
    \/ \E k \in 1..2 : RDEnter(k)
    \/ \E k \in 1..2 : RDStageOk(k)
    \/ \E k \in 1..2 : RDStageRaise(k)
    \/ RDExit1
    \/ RDExit2


-----------------------------------------------------------------------------
(***************************************************************************)
(* Resolver.get_deps_from_req                                              *)
(***************************************************************************)

\* the packages of the model, dependencies pointing from earlier to later ones
PkgNames == << <<"a">>, <<"b">>, <<"c">> >>

Rank(n) == CHOOSE i \in 1..Len(PkgNames) : PkgNames[i] = n

\* most dependencies one package's build metadata declares
MaxRequires == 1

\* the environment markers are evaluated against
HostEnv == [sys_platform |-> "linux", python_version |-> "3.8"]

FalseMarker == <<[key |-> "sys_platform", val |-> "win32", q |-> "double"]>>
TrueMarker == <<[key |-> "python_version", val |-> "3.8", q |-> "double"]>>

\* Marker.evaluate()
Evaluate(m) == \E i \in 1..Len(m) : HostEnv[m[i].key] = m[i].val

\* `marker and not marker.evaluate()`
MarkerExcludes(m) == m # NoMarker /\ ~Evaluate(m)

\* version strings are sequences of tokens: <<"==", "1.0">> is "==1.0", <<>> is ""
SetupVersion == <<"1.0">>
BestVersion == <<"2.0">>
SomeSpecifier == <<">=", "1.0">>

\* a declared dependency of a fetched package: packaging Requirement r
DepAttrs(n) ==
    {r \in [name : {n}, url : BOOLEAN, editable : BOOLEAN,
            marker : {NoMarker, TrueMarker, FalseMarker}] : r.editable => r.url}

\* the dependency lists a package of rank i can declare: at most MaxRequires
\* entries, on later packages, in rank order
RECURSIVE RequiresFrom(_, _)
RequiresFrom(i, left) ==
    IF i > Len(PkgNames) \/ left = 0 THEN {<<>>}
    ELSE RequiresFrom(i + 1, left)
         \cup {<<r>> \o rest : r \in DepAttrs(PkgNames[i]), rest \in RequiresFrom(i + 1, left - 1)}

\* the outside world of one call: build metadata, VCS checkout, package finder
Worlds ==
    {[requires |-> [i \in 1..Len(PkgNames) |-> CASE i = 1 -> ra [] i = 2 -> rb [] OTHER -> <<>>],
      urlkind |-> kb, has_version |-> hv, checkout_ok |-> co, best |-> TRUE] :
        ra \in RequiresFrom(2, MaxRequires), rb \in RequiresFrom(3, MaxRequires),
        kb \in {"vcs", "file", "wheel"}, hv \in BOOLEAN, co \in BOOLEAN}

PlainWorld(bc) ==
    [requires |-> [i \in 1..Len(PkgNames) |-> <<>>], urlkind |-> "file",
     has_version |-> TRUE, checkout_ok |-> TRUE, best |-> bc]

\* requirementslib Requirement, as far as get_deps_from_req reads it
SourceReqs ==
    {r \in [name : {PkgNames[1]}, kind : {"vcs", "file"}, editable : BOOLEAN,
            marker : {NoMarker}, specifiers : {<<>>, SomeSpecifier},
            installable : BOOLEAN] : r.installable => r.kind = "file"}

PlainReqs ==
    [name : {PkgNames[1]}, kind : {"plain", "wheel"}, editable : {FALSE},
     marker : {NoMarker, TrueMarker, FalseMarker}, specifiers : {<<>>, SomeSpecifier},
     installable : {FALSE}]

ExInputs ==
    {[req |-> r, resolve_vcs |-> rv, world |-> w] :
        r \in SourceReqs, rv \in BOOLEAN, w \in Worlds}
    \cup {[req |-> r, resolve_vcs |-> TRUE, world |-> PlainWorld(bc)] :
        r \in PlainReqs, bc \in BOOLEAN}

\* Requirement.pipfile_entry[1] for an entry that is a mapping
pipfile_entry(req) ==
    LET base == CASE req.kind = "vcs" -> [git |-> "repo-url"]
                  [] req.kind \in {"file", "wheel"} -> [file |-> "uri"]
                  [] OTHER -> [version |-> IF req.specifiers = <<>> THEN <<"*">>
                                           ELSE req.specifiers]
        e1 == IF req.editable THEN DictSet(base, "editable", TRUE) ELSE base
    IN  IF req.marker # NoMarker THEN DictSet(e1, "markers", req.marker) ELSE e1

\* _requirement_to_str_lowercase_name(r) / req.constraint_line
ConstraintLine(n, m) == [name |-> n, marker |-> m]

\* the requirement Resolver.parse_line builds from the line of a URL dependency r
UrlRequirement(r, w) ==
    [name |-> r.name, kind |-> w.urlkind, editable |-> FALSE, marker |-> r.marker,
     specifiers |-> <<>>, installable |-> FALSE]

\* get_vcs_deps(reqs=[req])[1]: the checkout's entry, nothing on OSError
get_vcs_deps(req, w) ==
    IF w.checkout_ok
    THEN DictSet(<<>>, req.name, DictSet(pipfile_entry(req), "ref", "commit-hash"))
    ELSE <<>>

Returned(cs, locked) == [raised |-> "none", constraints |-> cs, locked |-> locked]
Raised(e) == [raised |-> e, constraints |-> {}, locked |-> <<>>]

\* the plain-index branch, recording a marker-excluded requirement even when
\* the finder has no candidate for it
plain_branch_always_locks(req, w) ==
    IF MarkerExcludes(req.marker)
    THEN Returned({}, DictSet(<<>>, pep423_name(req.name),
                      translate_markers(pipfile_entry([req EXCEPT !.specifiers = <<"==">> \o BestVersion]))))
    ELSE Returned({ConstraintLine(req.name, req.marker)}, <<>>)

\* the plain-index branch without the early return after recording a
\* marker-excluded requirement: its constraint line is added as well
plain_branch_keeps_constraint(req, w) ==
    IF MarkerExcludes(req.marker) /\ w.best
    THEN Returned({ConstraintLine(req.name, req.marker)},
                  DictSet(<<>>, pep423_name(req.name),
                      translate_markers(pipfile_entry([req EXCEPT !.specifiers = <<"==">> \o BestVersion]))))
    ELSE IF MarkerExcludes(req.marker) THEN Returned({}, <<>>)
    ELSE Returned({ConstraintLine(req.name, req.marker)}, <<>>)

\* the else branch of get_deps_from_req: a plain index requirement (or a wheel)
plain_branch(req, w) ==
    IF MarkerExcludes(req.marker)
    THEN IF w.best
         THEN LET pinned == [req EXCEPT !.specifiers = <<"==">> \o BestVersion]
              IN  Returned({}, DictSet(<<>>, pep423_name(req.name),
                                       translate_markers(pipfile_entry(pinned))))
         ELSE Returned({}, <<>>)
    ELSE Returned({ConstraintLine(req.name, req.marker)}, <<>>)

RECURSIVE get_deps_from_req(_, _, _)
RECURSIVE ExpandRequirements(_, _, _, _)

\* the `for r in requirements` loop of the source branch, from accumulator acc
ExpandRequirements(rs, req, w, acc) ==
    IF rs = <<>> \/ acc.raised # "none" THEN acc
    ELSE LET r == Head(rs)
             new_req == UrlRequirement(r, w)
             sub == get_deps_from_req(new_req, TRUE, w)
             step ==
                 IF r.url /\ ~r.editable
                 THEN IF MarkerExcludes(r.marker)
                      \* new_constraints = {} is a dict: `constraints |= {}` raises
                      THEN [acc EXCEPT !.raised = "TypeError"]
                      ELSE IF sub.raised # "none"
                           THEN [acc EXCEPT !.raised = sub.raised]
                           ELSE Returned(acc.constraints \cup sub.constraints,
                                         DictUpdate(acc.locked, sub.locked))
                 ELSE IF ~MarkerExcludes(r.marker)
                      THEN [acc EXCEPT !.constraints = @ \cup {ConstraintLine(r.name, r.marker)}]
                      ELSE acc
         IN  ExpandRequirements(Tail(rs), req, w, step)

\* whether the fetched package's declared dependencies are read: always, unless
\* resolution is toggled off for a non-editable VCS package
RequirementsRead(req, resolve_vcs) ==
    resolve_vcs \/ req.editable \/ (req.kind = "file" /\ req.installable)

\* the first branch of get_deps_from_req: VCS, URL or local source, not a wheel
source_branch(req, resolve_vcs, w) ==
    LET vcs_lockfile == get_vcs_deps(req, w)
        name == req.name
    IN  IF req.kind = "vcs" /\ vcs_lockfile = <<>>
        \* req became the empty req_list: req.normalized_name raises
        THEN Raised("AttributeError")
        ELSE LET entry == IF req.kind = "vcs" THEN vcs_lockfile[pep423_name(name)]
                          ELSE pipfile_entry(req)
                 requirements ==
                     IF RequirementsRead(req, resolve_vcs)
                     THEN w.requires[Rank(name)]
                     ELSE <<>>
                 acc == ExpandRequirements(requirements, req, w,
                                           Returned({}, DictSet(<<>>, pep423_name(name), entry)))
                 versioned ==
                     IF req.kind = "vcs" THEN entry
                     ELSE IF req.specifiers # <<>>
                          THEN DictSet(entry, "version", req.specifiers)
                          ELSE IF w.has_version
                               THEN DictSet(entry, "version", <<"==">> \o SetupVersion)
                               ELSE entry
             IN  IF acc.raised # "none" THEN Raised(acc.raised)
                 ELSE IF name \notin DOMAIN acc.locked THEN Raised("KeyError")
                 ELSE Returned(acc.constraints,
                               DictSet(DictSet(acc.locked, pep423_name(name), versioned),
                                       name, versioned))

\* Resolver.get_deps_from_req(req, resolver, resolve_vcs)
get_deps_from_req(req, resolve_vcs, w) ==
    IF req.kind \in {"vcs", "file"}
    THEN source_branch(req, resolve_vcs, w)
    ELSE plain_branch(req, w)

NotCalled == [raised |-> "not called", constraints |-> {}, locked |-> <<>>]

ExInit ==
    /\ exIn \in ExInputs
    /\ exOut = NotCalled

ExIdle ==
    /\ exIn = [req |-> [name |-> PkgNames[1], kind |-> "plain", editable |-> FALSE,
                        marker |-> NoMarker, specifiers |-> <<>>, installable |-> FALSE],
               resolve_vcs |-> TRUE, world |-> PlainWorld(TRUE)]
    /\ exOut = NotCalled

\* one call of Resolver.get_deps_from_req
ExCall ==
    /\ exOut = NotCalled
    /\ exOut' = get_deps_from_req(exIn.req, exIn.resolve_vcs, exIn.world)
    /\ UNCHANGED <<exIn, notEx>>

ExNext == ExCall


-----------------------------------------------------------------------------
(***************************************************************************)
(* The lockfile merger: clean_resolved_dep, get_locked_dep,                *)
(* prepare_lockfile, and venv_resolve_deps which drives them               *)
(***************************************************************************)

\* version strings are sequences of tokens: "==1.2.0" is <<"==", "1.2.0">>,
\* ">=1.0" is <<">=", "1.0">>, "==1.*" is <<"==", "1.*">>, "" is <<>>
StartsWithEq(v) == Len(v) >= 1 /\ v[1] = "=="

\* "*" in version
HasStar(v) == \E i \in 1..Len(v) : v[i] \in {"*", "1.*"}

\* requirementslib.utils.is_vcs on a mapping
VcsKeys == {"git", "svn", "hg", "bzr"}

is_vcs(dep) == DOMAIN dep \cap VcsKeys # {}

\* the part of dict d under the keys K
Pick(d, K) == [k \in DOMAIN d \cap K |-> d[k]]

\* next(iter(k for k in ["path", "file"] if k in d), None)
FsKey(d) ==
    IF ~IsMapping(d) THEN Absent
    ELSE IF "path" \in DOMAIN d THEN "path"
    ELSE IF "file" \in DOMAIN d THEN "file"
    ELSE Absent

\* None where a Pipfile or lockfile entry is looked up
NoEntry == [k \in {"<None>"} |-> <<>>]

\* bool(entry) for a Pipfile or lockfile entry
EntryTruthy(e) ==
    IF "<None>" \in DOMAIN e THEN FALSE
    ELSE IF IsMapping(e) THEN DOMAIN e # {}
    ELSE e["<str>"] # <<>>

CleanRaised(exc) == [raised |-> exc, name |-> <<>>, entry |-> <<>>]

CleanReturned(n, e) == [raised |-> "none", name |-> n, entry |-> e]

\* the "markers" part of clean_resolved_dep: the exception it raises, or
\* "none" and the keys it adds to the lockfile entry
clean_markers(dep, is_top_level, pf_entry) ==
    IF ~("markers" \in DOMAIN dep /\ MarkerTruthy(dep["markers"]))
    THEN [raised |-> "none", add |-> <<>>]
    ELSE IF ~is_top_level
    THEN IF translate_markers_exc(dep) # "none"
         THEN [raised |-> translate_markers_exc(dep), add |-> <<>>]
         ELSE LET translated == DictGet(translate_markers(dep), "markers", NoMarker)
              IN  [raised |-> "none",
                   add |-> IF MarkerTruthy(translated)
                           THEN [markers |-> translated] ELSE <<>>]
    ELSE CASE translate_markers_exc(pf_entry) = "TypeError" ->
                 [raised |-> "none", add |-> <<>>]
           [] translate_markers_exc(pf_entry) = "InvalidMarker" ->
                 [raised |-> "InvalidMarker", add |-> <<>>]
           [] OTHER ->
                 [raised |-> "none",
                  add |-> [markers |-> DictGet(translate_markers(pf_entry),
                                               "markers", NoneMarker)]]

\* the return of clean_resolved_dep, unless the markers part raised
clean_finish(name, lockfile_dict, mk) ==
    IF mk.raised # "none" THEN CleanRaised(mk.raised)
    ELSE CleanReturned(name, DictUpdate(lockfile_dict, mk.add))

clean_resolved_dep(dep, is_top_level, pf_entry) ==
    IF "name" \notin DOMAIN dep THEN CleanRaised("KeyError")
    ELSE
    LET name == pep423_name(dep["name"])
        with_version ==
            IF /\ "version" \in DOMAIN dep
               /\ dep["version"] # <<>>
               /\ ~DictGet(dep, "editable", FALSE)
            THEN [version |-> IF StartsWithEq(dep["version"]) THEN dep["version"]
                              ELSE <<"==">> \o dep["version"]]
            ELSE <<>>
        with_vcs ==
            IF is_vcs(dep)
            THEN Pick(dep, {"ref", "subdirectory",
                            CHOOSE k \in DOMAIN dep \cap VcsKeys : TRUE})
            ELSE <<>>
        copied == Pick(dep, {"hashes", "index", "extras", "editable"})
        fs_key == FsKey(dep)
        pipfile_fs_key == IF EntryTruthy(pf_entry) THEN FsKey(pf_entry) ELSE Absent
        with_fs ==
            IF fs_key # Absent /\ pipfile_fs_key # Absent /\ fs_key # pipfile_fs_key
            THEN Pick(pf_entry, {pipfile_fs_key})
            ELSE IF fs_key # Absent THEN Pick(dep, {fs_key})
            ELSE <<>>
    IN  clean_finish(name,
                     DictUpdate(DictUpdate(DictUpdate(with_version, with_vcs), copied), with_fs),
                     clean_markers(dep, is_top_level, pf_entry))

\* the Pipfile entry whose key is the record's name after normalisation
matching_entry(dep, pipfile_section) ==
    LET matches == IF DictGet(dep, "name", <<>>) # <<>>
                   THEN {k \in DOMAIN pipfile_section :
                            pep423_name(k) = pep423_name(dep["name"])}
                   ELSE {}
    IN  IF matches # {} THEN pipfile_section[CHOOSE k \in matches : TRUE] ELSE NoEntry

\* lines 1163-1165: clean_resolved_dep with the Pipfile entry, if there is one
clean_with_entry(dep, entry) ==
    IF EntryTruthy(entry) THEN clean_resolved_dep(dep, TRUE, entry)
    ELSE clean_resolved_dep(dep, FALSE, NoEntry)

\* lines 1166-1169: the version the Pipfile entry declares
declared_version(entry) ==
    IF ~EntryTruthy(entry) THEN <<>>
    ELSE IF IsMapping(entry) THEN DictGet(entry, "version", <<>>)
    ELSE entry["<str>"]

\* lines 1170-1176 with prefer_pipfile off: the cleaned entry as it is
drop_pin(version, lockfile_entry) == lockfile_entry

\* lines 1170-1176, "Keep pins from the lockfile"
keep_pin(version, lockfile_entry) ==
    IF lockfile_entry.raised # "none" THEN lockfile_entry
    ELSE IF /\ DictGet(lockfile_entry.entry, "version", <<>>) # version
            /\ StartsWithEq(version)
            /\ ~HasStar(version)
    THEN CleanReturned(lockfile_entry.name,
                       DictSet(lockfile_entry.entry, "version", version))
    ELSE lockfile_entry

\* get_locked_dep once the Pipfile entry is found
locked_dep_for(dep, entry) ==
    keep_pin(declared_version(entry), clean_with_entry(dep, entry))

get_locked_dep(dep, pipfile_section) ==
    locked_dep_for(dep, matching_entry(dep, pipfile_section))

\* lines 1188-1197 with an assignment where the code updates the entry
merge_entry_replacing(section, name, new_entry, current_entry) ==
    [raised |-> "none", section |-> DictSet(section, name, new_entry)]

\* lines 1188-1197: merge one cleaned entry into the section; the section as
\* the iteration left it, and the exception it raised
merge_entry(section, name, new_entry, current_entry) ==
    IF EntryTruthy(current_entry) /\ IsMapping(current_entry)
    THEN IF translate_markers_exc(DictUpdate(current_entry, new_entry)) # "none"
         THEN [raised |-> translate_markers_exc(DictUpdate(current_entry, new_entry)),
               section |-> DictSet(section, name, DictUpdate(current_entry, new_entry))]
         ELSE [raised |-> "none",
               section |-> DictSet(section, name,
                                   translate_markers(DictUpdate(current_entry, new_entry)))]
    ELSE [raised |-> "none", section |-> DictSet(section, name, new_entry)]

merge_locked(section, lockfile_entry) ==
    IF lockfile_entry.raised # "none"
    THEN [raised |-> lockfile_entry.raised, section |-> section]
    ELSE merge_entry(section, lockfile_entry.name, lockfile_entry.entry,
                     DictGet(section, lockfile_entry.name, NoEntry))

\* one iteration of the loop of prepare_lockfile(results, pipfile, lockfile)
prepare_lockfile_dep(dep, pipfile, section) ==
    IF DOMAIN dep = {} THEN [raised |-> "none", section |-> section]
    ELSE merge_locked(section, get_locked_dep(dep, pipfile))

\* ---- the inputs of a venv_resolve_deps call ----

MaxResults == 2

\* a Pipfile key and the name the resolver reports for the same package
PipfileKey == <<"A", "-", "b">>

ResultName == <<"a", "_", "b">>

OtherName == <<"c">>

LinuxOnly == <<[key |-> "sys_platform", val |-> "linux", q |-> "single"]>>

\* the records clean_results writes to the hand-off file, an empty record,
\* and a record without a name
ResultRecords ==
    { [name |-> ResultName, version |-> <<"1.3.0">>],
      [name |-> ResultName, version |-> <<"==", "1.2.0">>, markers |-> LinuxOnly],
      [name |-> ResultName, git |-> "url", ref |-> "abc"],
      [name |-> ResultName, path |-> ".", editable |-> TRUE],
      [name |-> OtherName, version |-> <<"2.0">>],
      [version |-> <<"1.0">>],
      <<>> }

RECURSIVE SeqsUpTo(_, _)
SeqsUpTo(S, n) ==
    IF n = 0 THEN {<<>>}
    ELSE LET shorter == SeqsUpTo(S, n - 1)
         IN  shorter \cup {Append(s, x) : s \in shorter, x \in S}

\* what the Pipfile section says about the package
PipfileEntries ==
    { StrEntry(<<"*">>),
      StrEntry(<<"==", "1.2.0">>),
      StrEntry(<<">=", "1.0">>),
      StrEntry(<<"==", "1.*">>),
      [version |-> <<"==", "1.2.0">>, os_name |-> [op |-> "==", val |-> "posix", q |-> "single"]],
      [git |-> "url", ref |-> "abc", editable |-> TRUE] }

PipfileSections == {<<>>} \cup {[k \in {PipfileKey} |-> e] : e \in PipfileEntries}

\* what the lockfile section holds for the package before the call
LockedEntries ==
    { [version |-> <<"==", "1.0.0">>, hashes |-> {"sha256:aa"}],
      [version |-> <<"==", "1.0.0">>, markers |-> LinuxOnly],
      [version |-> <<"==", "1.0.0">>, os_name |-> [op |-> "==", val |-> "posix", q |-> "single"]],
      StrEntry(<<"==", "1.0.0">>) }

Meta == [k \in {"_meta"} |-> <<>>]

Lockfiles ==
    {Meta, DictSet(Meta, "default", <<>>)}
      \cup {DictSet(Meta, "default", [k \in {pep423_name(PipfileKey)} |-> e]) : e \in LockedEntries}

\* the hand-off file: absent, or present with its content
NoFile == [state |-> "absent", results |-> <<>>]

EmptyFile == [state |-> "empty", results |-> <<>>]

GarbageFile == [state |-> "garbage", results |-> <<>>]

JsonFile(results) == [state |-> "json", results |-> results]

\* what the resolver subprocess can leave at the path it was told to write
FilesAfterResolver(results) == {NoFile, EmptyFile, GarbageFile, JsonFile(results)}

ReturnCodes == {0, 1}

NoRaise == "none"

VInit ==
    /\ vpc = "start"
    /\ vIn \in [deps : {"some"}, pipfile : PipfileSections,
                results : SeqsUpTo(ResultRecords, MaxResults)]
             \cup [deps : {"none"}, pipfile : PipfileSections, results : {<<>>}]
    /\ lockfile \in Lockfiles
    /\ lockfile0 = lockfile
    /\ handoff = NoFile
    /\ vOut = [created |-> FALSE, returncode |-> <<>>, exit |-> NoExit,
               raised |-> NoRaise, parsed |-> FALSE, loaded |-> <<>>]

VIdle ==
    /\ vpc = "idle"
    /\ vIn = [deps |-> "none", pipfile |-> <<>>, results |-> <<>>]
    /\ lockfile = Meta
    /\ lockfile0 = Meta
    /\ handoff = NoFile
    /\ vOut = [created |-> FALSE, returncode |-> <<>>, exit |-> NoExit,
               raised |-> NoRaise, parsed |-> FALSE, loaded |-> <<>>]

\* lines 1247-1276: the early returns, then NamedTemporaryFile(delete=False)
VenvCall ==
    /\ vpc = "start"
    /\ IF vIn.deps = "none"
       THEN /\ vpc' = "returned"
            /\ UNCHANGED <<handoff, vOut>>
       ELSE /\ vpc' = "resolving"
            /\ handoff' = EmptyFile
            /\ vOut' = [vOut EXCEPT !.created = TRUE]
    /\ UNCHANGED <<vIn, lockfile, lockfile0, notLk>>

\* lines 1277-1312: resolve(cmd, sp, project) runs the resolver subprocess;
\* resolve() calls sys.exit(returncode) on a non-zero return code
VenvResolve(rc, file) ==
    /\ vpc = "resolving"
    /\ handoff' = file
    /\ IF rc # 0
       THEN /\ vpc' = "exited"
            /\ vOut' = [vOut EXCEPT !.returncode = <<rc>>, !.exit = <<rc>>]
       ELSE /\ vpc' = "load"
            /\ vOut' = [vOut EXCEPT !.returncode = <<rc>>]
    /\ UNCHANGED <<vIn, lockfile, lockfile0, notLk>>

\* lines 1313-1325: json.load of the hand-off file, os.unlink, and the
\* creation of the lockfile section if it is missing
VenvLoad ==
    /\ vpc = "load"
    /\ CASE handoff.state = "absent" ->
              /\ vpc' = "raised"
              /\ vOut' = [vOut EXCEPT !.raised = "FileNotFoundError"]
              /\ UNCHANGED <<handoff, lockfile>>
         [] handoff.state \in {"empty", "garbage"} ->
              /\ vpc' = "raised"
              /\ vOut' = [vOut EXCEPT !.raised = "RuntimeError"]
              /\ handoff' = NoFile
              /\ UNCHANGED lockfile
         [] OTHER ->
              /\ vpc' = "merge"
              /\ vOut' = [vOut EXCEPT !.loaded = handoff.results, !.parsed = TRUE]
              /\ handoff' = NoFile
              /\ lockfile' = IF "default" \in DOMAIN lockfile THEN lockfile
                             ELSE DictSet(lockfile, "default", <<>>)
    /\ UNCHANGED <<vIn, lockfile0, notLk>>

\* line 1326, prepare_lockfile: one iteration of `for dep in results`, or the
\* return when the loop has run through; vOut.loaded holds the records left
VenvMerge ==
    /\ vpc = "merge"
    /\ IF vOut.loaded = <<>>
       THEN /\ vpc' = "returned"
            /\ UNCHANGED <<lockfile, vOut>>
       ELSE LET merged == prepare_lockfile_dep(Head(vOut.loaded), vIn.pipfile,
                                               lockfile["default"])
            IN  /\ lockfile' = DictSet(lockfile, "default", merged.section)
                /\ vOut' = [vOut EXCEPT !.raised = merged.raised,
                                        !.loaded = Tail(vOut.loaded)]
                /\ vpc' = IF merged.raised = NoRaise THEN "merge" ELSE "raised"
    /\ UNCHANGED <<vIn, lockfile0, handoff, notLk>>

VNext ==
    \/ VenvCall
    \/ \E rc \in ReturnCodes, file \in FilesAfterResolver(vIn.results) : VenvResolve(rc, file)
    \/ VenvLoad
    \/ VenvMerge

-----------------------------------------------------------------------------
(***************************************************************************)
(* Hash collection and result cleaning: Resolver.resolve_hashes,           *)
(* collect_hashes and clean_results                                        *)
(***************************************************************************)

\* a hash string is a sequence of tokens: "sha256:aa" is <<"sha256", ":", "aa">>,
\* a bare digest "aa" is <<"aa">>, "" is <<>>
FAVORITE_HASH == "sha256"

HashStr(algo, hex) == <<algo, ":", hex>>

\* the tokens of hash strings in ascending order, for sorted()
TokenOrder == <<":", "aa", "bb", "cc", "md5", "sha256">>

TokenRank(t) == CHOOSE i \in 1..Len(TokenOrder) : TokenOrder[i] = t

\* s < t for two hash strings
RECURSIVE HashLess(_, _)
HashLess(s, t) ==
    IF t = <<>> THEN FALSE
    ELSE IF s = <<>> THEN TRUE
    ELSE IF Head(s) = Head(t) THEN HashLess(Tail(s), Tail(t))
    ELSE TokenRank(Head(s)) < TokenRank(Head(t))

\* sorted(set(hashes))
RECURSIVE SortedHashes(_)
SortedHashes(S) ==
    IF S = {} THEN <<>>
    ELSE LET least == CHOOSE x \in S : \A y \in S \ {x} : HashLess(x, y)
         IN  <<least>> \o SortedHashes(S \ {least})

\* checksum.startswith(f"{hash_type}:")
HasHashType(checksum, hash_type) ==
    Len(checksum) >= 2 /\ checksum[1] = hash_type /\ checksum[2] = ":"

\* prepend_hash_types without the prefixing: the checksums as they came
checksums_as_given(checksums, hash_type) == checksums

prepend_hash_types(checksums, hash_type) ==
    {IF HasHashType(c, hash_type) THEN c ELSE <<hash_type, ":">> \o c :
        c \in {x \in checksums : x # <<>>}}

\* pip Link, as far as hashing reads it: the URL and the hash in its fragment
NoLink == [url |-> "", hash_name |-> "", hash |-> ""]

\* HashCacheMixin._get_file_hash: the digest of the file behind a URL
FileDigest == [u1 |-> "bb", u2 |-> "aa", u3 |-> "bb"]

_get_file_hash(link) == HashStr(FAVORITE_HASH, FileDigest[link.url])

\* whether Resolver._get_hash_from_link turns to the hash cache for the link
NeedsCache(link) == ~(link.hash # "" /\ link.hash_name = FAVORITE_HASH)

\* HashCacheMixin.get_hash(link): the value returned
get_hash(link, cache) ==
    IF link.url \in DOMAIN cache /\ cache[link.url] # <<>> THEN cache[link.url]
    ELSE _get_file_hash(link)

_get_hash_from_link(link, cache) ==
    IF ~NeedsCache(link) THEN HashStr(link.hash_name, link.hash)
    ELSE get_hash(link, cache)

\* the hash cache after get_hash has been called for each of the links
CacheAfter(links, cache) ==
    [u \in DOMAIN cache \cup {l.url : l \in {x \in links : NeedsCache(x)}} |->
        IF u \in DOMAIN cache /\ cache[u] # <<>> THEN cache[u]
        ELSE HashStr(FAVORITE_HASH, FileDigest[u])]

\* _get_hashes_from_pypi(ireq): None is NoHashes
NoHashes == {}

\* the classes an exception of the PyPI query is an instance of, besides its own
ExcBases(e) ==
    CASE e = "JSONDecodeError" -> {"ValueError"}
      [] e \in {"requests.ConnectionError", "requests.ReadTimeout"} ->
            {"requests.RequestException", "OSError"}
      [] OTHER -> {}

\* line 925: except (ValueError, KeyError, ConnectionError), ConnectionError
\* being the builtin
except_pypi(e) == ({e} \cup ExcBases(e)) \cap {"ValueError", "KeyError", "ConnectionError"} # {}

\* whether _get_hashes_from_pypi(ireq) raises
pypi_raises(w) == ~w.pypi.ok /\ ~except_pypi(w.pypi.exc)

_get_hashes_from_pypi(ireq, w) ==
    IF ~w.pypi.ok THEN NoHashes
    ELSE prepend_hash_types(w.pypi.digests, FAVORITE_HASH)

is_pinned_requirement(ireq) ==
    /\ ~ireq.editable
    /\ Len(ireq.specifiers) = 2
    /\ ireq.specifiers[1] \in {"==", "==="}
    /\ ireq.specifiers[2] \notin {"1.*"}

\* collect_hashes with the pinned test ahead of the look at the link
HashSource_pinned_first(ireq, w) ==
    CASE ~is_pinned_requirement(ireq) -> "none"
      [] ireq.kind \in {"vcs", "dir"} -> "none"
      [] ireq.original_link # NoLink -> "link"
      [] w.pypi_source /\ pypi_raises(w) -> "raise"
      [] w.pypi_source /\ _get_hashes_from_pypi(ireq, w) # NoHashes -> "pypi"
      [] OTHER -> "candidates"

\* collect_hashes(ireq): where the hashes come from
HashSource(ireq, w) ==
    CASE ireq.kind \in {"vcs", "dir"} -> "none"
      [] ireq.original_link # NoLink -> "link"
      [] ~is_pinned_requirement(ireq) -> "none"
      [] w.pypi_source /\ pypi_raises(w) -> "raise"
      [] w.pypi_source /\ _get_hashes_from_pypi(ireq, w) # NoHashes -> "pypi"
      [] OTHER -> "candidates"

\* collect_hashes(ireq): the set returned
collect_hashes(ireq, w, cache) ==
    CASE HashSource(ireq, w) = "none" -> {}
      [] HashSource(ireq, w) = "link" -> {_get_hash_from_link(ireq.original_link, cache)}
      [] HashSource(ireq, w) = "pypi" -> _get_hashes_from_pypi(ireq, w)
      [] OTHER -> {_get_hash_from_link(l, cache) : l \in w.candidates}

\* collect_hashes(ireq): the hash cache it leaves
collect_hashes_cache(ireq, w, cache) ==
    CASE HashSource(ireq, w) = "link" -> CacheAfter({ireq.original_link}, cache)
      [] HashSource(ireq, w) = "candidates" -> CacheAfter(w.candidates, cache)
      [] OTHER -> cache

\* whether Requirement.pipfile_entry[1] is a plain version string
IsStrPipfileEntry(req) ==
    req.kind = "plain" /\ ~req.editable /\ req.marker = NoMarker

\* pf_entry.lstrip("=")
lstrip_eq(v) == IF Len(v) >= 1 /\ v[1] \in {"==", "==="} THEN Tail(v) ELSE v

\* str(req.get_version())
get_version(req) == Tail(req.specifiers)

\* format_requirement_for_lockfile up to `entry["name"] = name`
format_entry(req, hashes) ==
    LET versioned ==
            IF IsStrPipfileEntry(req)
            THEN [version |-> lstrip_eq(IF req.specifiers = <<>> THEN <<"*">>
                                        ELSE req.specifiers)]
            ELSE IF req.specifiers # <<>> /\ req.kind # "vcs"
            THEN DictSet(pipfile_entry(req), "version", get_version(req))
            ELSE pipfile_entry(req)
        hashed == IF hashes # {} THEN DictSet(versioned, "hashes", SortedHashes(hashes))
                  ELSE versioned
    IN  DictSet(hashed, "name", pep423_name(req.name))

\* format_requirement_for_lockfile(req, markers_lookup, index_lookup, hashes)[1]
format_requirement_for_lockfile(req, markers_lookup, index_lookup, hashes) ==
    LET name == pep423_name(req.name)
        with_index == IF name \in DOMAIN index_lookup
                      THEN [index |-> index_lookup[name]] ELSE <<>>
        with_markers == IF name \in DOMAIN markers_lookup
                        THEN [markers |-> markers_lookup[name]] ELSE <<>>
        entry == translate_markers(
                     DictUpdate(DictUpdate(format_entry(req, hashes), with_index), with_markers))
    IN  IF req.kind = "vcs" \/ req.editable
        THEN Pick(entry, DOMAIN entry \ {"index", "version", "file"})
        ELSE entry

\* Requirement.from_pipfile(k, value).as_ireq() for a skipped entry
SkippedIreq(k, value) ==
    [name |-> k,
     kind |-> IF is_vcs(value) THEN "vcs" ELSE "plain",
     editable |-> DictGet(value, "editable", FALSE),
     marker |-> DictGet(value, "markers", NoMarker),
     specifiers |-> IF DictGet(value, "version", <<"*">>) = <<"*">> THEN <<>>
                    ELSE value["version"],
     installable |-> FALSE,
     original_link |-> NoLink,
     is_direct_url |-> FALSE]

\* Resolver._clean_skipped_result(req, value)[1]
_clean_skipped_result(k, value, w, cache) ==
    LET named == DictSet(value, "name", k)
        entry == IF DictGet(named, "editable", FALSE) /\ DictGet(named, "version", <<>>) # <<>>
                 THEN DictDel(named, "version") ELSE named
        collected_hashes == collect_hashes(SkippedIreq(k, value), w, cache)
    IN  IF collected_hashes # {}
        THEN DictSet(entry, "hashes", SortedHashes(collected_hashes))
        ELSE entry

\* results is kept as the list of its values in insertion order;
\* `name in results`
ResultIndex(results, name) ==
    IF \E i \in 1..Len(results) : results[i]["name"] = name
    THEN CHOOSE i \in 1..Len(results) : results[i]["name"] = name
    ELSE 0

\* results[name] = entry under a key of its own, whatever results holds
put_result_append(results, name, entry) == Append(results, entry)

\* lines 1011-1014 and 1019-1022: results[name].update(entry) or results[name] = entry
put_result(results, name, entry) ==
    IF ResultIndex(results, name) # 0
    THEN [results EXCEPT ![ResultIndex(results, name)] = DictUpdate(@, entry)]
    ELSE Append(results, entry)

\* ---- the inputs of a hashing and cleaning run ----

\* most requirements in the resolved tree
MaxTree == 2

LinkSha == [url |-> "u1", hash_name |-> "sha256", hash |-> "bb"]

LinkMd5 == [url |-> "u2", hash_name |-> "md5", hash |-> "cc"]

LinkBare == [url |-> "u3", hash_name |-> "", hash |-> ""]

\* InstallRequirement / Requirement, as far as hashing and cleaning read it
Ireq(n, k, e, s, l) ==
    [name |-> n, kind |-> k, editable |-> e, marker |-> NoMarker, specifiers |-> s,
     installable |-> FALSE, original_link |-> l, is_direct_url |-> FALSE]

TreeIreqs ==
    { Ireq(ResultName, "plain", FALSE, <<"==", "1.0">>, NoLink),
      Ireq(PipfileKey, "plain", FALSE, <<">=", "1.0">>, NoLink),
      Ireq(PkgNames[2], "file", FALSE, <<>>, LinkSha),
      Ireq(PkgNames[2], "file", FALSE, <<>>, LinkMd5),
      Ireq(PkgNames[2], "vcs", FALSE, <<>>, NoLink),
      Ireq(PkgNames[3], "vcs", TRUE, <<>>, NoLink),
      [Ireq(PkgNames[3], "vcs", TRUE, <<>>, NoLink) EXCEPT !.is_direct_url = TRUE] }

\* the resolved tree in the order the loops visit it: distinct requirements
RECURSIVE Trees(_)
Trees(n) ==
    IF n = 0 THEN {<<>>}
    ELSE LET shorter == Trees(n - 1)
             Fresh(t) == {x \in TreeIreqs : \A i \in 1..Len(t) : t[i] # x}
         IN  shorter \cup UNION {{Append(t, r) : r \in Fresh(t)} : t \in shorter}

\* what the JSON API of PyPI answers: a failure, or the sha256 digests of a release
PypiFailures == {"JSONDecodeError", "KeyError", "requests.ConnectionError", "requests.ReadTimeout"}

PypiAnswers ==
    {[ok |-> FALSE, exc |-> e, digests |-> {}] : e \in PypiFailures}
    \cup
    { [ok |-> TRUE, exc |-> "none", digests |-> {<<"bb">>, <<"aa">>}],
      [ok |-> TRUE, exc |-> "none", digests |-> {<<>>}],
      [ok |-> TRUE, exc |-> "none", digests |-> {HashStr("sha256", "aa"), <<"aa">>}] }

\* the applicable candidates the finder has for a pinned requirement
CandidateSets == {{}, {LinkSha, LinkBare}, {LinkMd5, LinkBare}}

\* the hash cache on disk before the run
Caches == {<<>>, [u2 |-> HashStr("sha256", "aa")]}

\* self.skipped: top-level entries the expander locked already
SkippedMaps ==
    { <<>>,
      [k \in {pep423_name(ResultName)} |-> [version |-> <<"==", "2.0">>]],
      [k \in {pep423_name(ResultName)} |-> [version |-> <<"*">>, markers |-> FalseMarker]] }

HashWorlds ==
    {[pypi_source |-> TRUE, pypi |-> p, candidates |-> c, skipped |-> s,
      index_lookup |-> <<>>, markers_lookup |-> <<>>] :
        p \in PypiAnswers, c \in CandidateSets, s \in SkippedMaps}
    \cup {[pypi_source |-> FALSE, pypi |-> [ok |-> FALSE, exc |-> "KeyError", digests |-> {}],
           candidates |-> c, skipped |-> s,
           index_lookup |-> <<>>, markers_lookup |-> <<>>] :
        c \in CandidateSets, s \in SkippedMaps}

\* self.results = None (line 420)
NoResults == [is_none |-> TRUE, reqs |-> <<>>]

\* what the pip resolver does on resolver.resolve(self.constraints, ...)
SolverOutcomes == {"ok", "InstallationError"}

\* Resolver.resolve storing what the solver had found before it failed
Resolver_resolve_keeps_partial(results, tree, solved, found) ==
    IF solved = "InstallationError"
    THEN [raised |-> "ResolutionFailure", results |-> [is_none |-> FALSE, reqs |-> found],
          tree |-> found]
    ELSE [raised |-> "none", results |-> [is_none |-> FALSE, reqs |-> found], tree |-> found]

\* Resolver.resolve, lines 863-871: self.results and self.resolved_tree after
\* the call, and the exception raised
Resolver_resolve(results, tree, solved, found) ==
    IF solved = "InstallationError"
    THEN [raised |-> "ResolutionFailure", results |-> results, tree |-> tree]
    ELSE [raised |-> "none", results |-> [is_none |-> FALSE, reqs |-> found], tree |-> found]

HInit ==
    /\ hpc = "resolve"
    /\ self_results = NoResults
    /\ resolved_tree = <<>>
    /\ hIn \in [tree : Trees(MaxTree), world : HashWorlds]
    /\ hcache \in Caches
    /\ hidx = 1
    /\ self_hashes = <<>>
    /\ hresults = <<>>
    /\ hleft = {}

HIdle ==
    /\ hpc = "idle"
    /\ self_results = NoResults
    /\ resolved_tree = <<>>
    /\ hIn = [tree |-> <<>>,
              world |-> [pypi_source |-> FALSE, pypi |-> [ok |-> FALSE, exc |-> "KeyError", digests |-> {}],
                         candidates |-> {}, skipped |-> <<>>,
                         index_lookup |-> <<>>, markers_lookup |-> <<>>]]
    /\ hcache = <<>>
    /\ hidx = 1
    /\ self_hashes = <<>>
    /\ hresults = <<>>
    /\ hleft = {}

\* Resolver.resolve: the solver returns hIn.tree, or fails
ResolveStep(solved) ==
    /\ hpc = "resolve"
    /\ LET after == Resolver_resolve(self_results, resolved_tree, solved, hIn.tree)
       IN  /\ self_results' = after.results
           /\ resolved_tree' = after.tree
           /\ hpc' = IF after.raised = "none" THEN "hashing" ELSE "ResolutionFailure"
    /\ UNCHANGED <<hIn, hcache, hidx, self_hashes, hresults, hleft, notH>>

\* resolve_hashes on a resolver whose resolve() raised: `if self.results is
\* not None` decides whether anything is collected
ResolveHashesAfterFailure ==
    /\ hpc = "ResolutionFailure"
    /\ hpc' = "hashed after failure"
    /\ self_hashes' = IF self_results.is_none THEN self_hashes
                      ELSE [i \in 1..Len(self_results.reqs) |->
                               IF HashSource(self_results.reqs[i], hIn.world) = "raise" THEN {}
                               ELSE collect_hashes(self_results.reqs[i], hIn.world, hcache)]
    /\ UNCHANGED <<hIn, hcache, hidx, hresults, hleft, self_results, resolved_tree, notH>>

\* resolve_hashes: one iteration of `for ireq in self.results`, or its return
ResolveHashesStep ==
    /\ hpc = "hashing"
    /\ IF hidx > Len(self_results.reqs)
       THEN /\ hpc' = "cleaning"
            /\ hidx' = 1
            /\ UNCHANGED <<self_hashes, hcache>>
       ELSE IF HashSource(self_results.reqs[hidx], hIn.world) = "raise"
       THEN /\ hpc' = "raised"
            /\ UNCHANGED <<self_hashes, hcache, hidx>>
       ELSE /\ self_hashes' = DictSet(self_hashes, hidx, collect_hashes(self_results.reqs[hidx], hIn.world, hcache))
            /\ hcache' = collect_hashes_cache(self_results.reqs[hidx], hIn.world, hcache)
            /\ hidx' = hidx + 1
            /\ UNCHANGED hpc
    /\ UNCHANGED <<hIn, hresults, hleft, self_results, resolved_tree, notH>>

\* clean_results dropping from the solver output the editable VCS entries only
skips_vcs_editable_only(ireq, skipped) ==
    ireq.kind = "vcs" /\ ireq.editable /\ ~ireq.is_direct_url

\* clean_results, lines 999-1002: whether the loop passes over the entry
skips_solver_entry(ireq, skipped) ==
    \/ ireq.kind = "vcs" /\ ireq.editable /\ ~ireq.is_direct_url
    \/ pep423_name(ireq.name) \in DOMAIN skipped

\* clean_results, lines 998-1014: one iteration of `for req, ireq in reqs`
CleanResultsStep ==
    /\ hpc = "cleaning"
    /\ IF hidx > Len(resolved_tree)
       THEN /\ hpc' = "skipped"
            /\ hleft' = DOMAIN hIn.world.skipped
            /\ UNCHANGED <<hidx, hresults>>
       ELSE /\ hidx' = hidx + 1
            /\ hresults' =
                 IF skips_solver_entry(resolved_tree[hidx], hIn.world.skipped)
                 THEN hresults
                 ELSE put_result(hresults, pep423_name(resolved_tree[hidx].name),
                          translate_markers(format_requirement_for_lockfile(
                              resolved_tree[hidx], hIn.world.markers_lookup,
                              hIn.world.index_lookup, DictGet(self_hashes, hidx, {}))))
            /\ UNCHANGED <<hpc, hleft>>
    /\ UNCHANGED <<hIn, self_hashes, hcache, self_results, resolved_tree, notH>>

\* clean_results, lines 1015-1024: one iteration of `for k in self.skipped`, or
\* the return of the list
CleanSkippedStep ==
    /\ hpc = "skipped"
    /\ IF hleft = {}
       THEN /\ hpc' = "done"
            /\ UNCHANGED <<hleft, hresults, hcache>>
       ELSE LET k == CHOOSE x \in hleft : TRUE
                value == hIn.world.skipped[k]
            IN  IF HashSource(SkippedIreq(k, value), hIn.world) = "raise"
                THEN /\ hpc' = "raised"
                     /\ UNCHANGED <<hleft, hresults, hcache>>
                ELSE /\ hleft' = hleft \ {k}
                     /\ hresults' = put_result(hresults, k,
                            translate_markers(_clean_skipped_result(k, value, hIn.world, hcache)))
                     /\ hcache' = collect_hashes_cache(SkippedIreq(k, value), hIn.world, hcache)
                     /\ UNCHANGED hpc
    /\ UNCHANGED <<hIn, self_hashes, hidx, self_results, resolved_tree, notH>>

HNext ==
    \/ \E solved \in SolverOutcomes : ResolveStep(solved)
    \/ ResolveHashesAfterFailure
    \/ ResolveHashesStep
    \/ CleanResultsStep
    \/ CleanSkippedStep

-----------------------------------------------------------------------------
(***************************************************************************)
(* HashCacheMixin.get_hash, step by step, called by resolution runs that   *)
(* share one cache directory                                               *)
(***************************************************************************)

MaxRuns == 2

Runs == 1..MaxRuns

\* links _get_hash_from_link hands to the cache
CacheLinks == {LinkMd5, LinkBare}

CacheUrls == {l.url : l \in CacheLinks}

GInit ==
    /\ gpc = [r \in Runs |-> "idle"]
    /\ glink = [r \in Runs |-> NoLink]
    /\ gvalue = [r \in Runs |-> <<>>]
    /\ gcache \in Caches
    /\ gsets = [u \in CacheUrls |-> 0]
    /\ gret = [r \in Runs |-> <<>>]

GIdle ==
    /\ gpc = [r \in Runs |-> "off"]
    /\ glink = [r \in Runs |-> NoLink]
    /\ gvalue = [r \in Runs |-> <<>>]
    /\ gcache = <<>>
    /\ gsets = [u \in CacheUrls |-> 0]
    /\ gret = [r \in Runs |-> <<>>]

\* _get_hash_from_link, line 973: self.hash_cache.get_hash(link)
GetHashCall(r, link) ==
    /\ gpc[r] = "idle"
    /\ gpc' = [gpc EXCEPT ![r] = "get"]
    /\ glink' = [glink EXCEPT ![r] = link]
    /\ UNCHANGED <<gvalue, gcache, gsets, gret, notG>>

\* get_hash, lines 391-392: hash_value = self.get(link.url); if not hash_value
GetHashGet(r) ==
    /\ gpc[r] = "get"
    /\ gvalue' = [gvalue EXCEPT ![r] = DictGet(gcache, glink[r].url, <<>>)]
    /\ gpc' = [gpc EXCEPT ![r] = IF DictGet(gcache, glink[r].url, <<>>) # <<>> THEN "return" ELSE "hash"]
    /\ UNCHANGED <<glink, gcache, gsets, gret, notG>>

\* get_hash, line 393: hash_value = self._get_file_hash(link).encode()
GetHashFile(r) ==
    /\ gpc[r] = "hash"
    /\ gvalue' = [gvalue EXCEPT ![r] = _get_file_hash(glink[r])]
    /\ gpc' = [gpc EXCEPT ![r] = "set"]
    /\ UNCHANGED <<glink, gcache, gsets, gret, notG>>

\* get_hash, line 394: self.set(link.url, hash_value)
GetHashSet(r) ==
    /\ gpc[r] = "set"
    /\ gcache' = DictSet(gcache, glink[r].url, gvalue[r])
    /\ gsets' = [gsets EXCEPT ![glink[r].url] = @ + 1]
    /\ gpc' = [gpc EXCEPT ![r] = "return"]
    /\ UNCHANGED <<glink, gvalue, gret, notG>>

\* get_hash, line 395: return hash_value.decode("utf8")
GetHashReturn(r) ==
    /\ gpc[r] = "return"
    /\ gret' = [gret EXCEPT ![r] = gvalue[r]]
    /\ gpc' = [gpc EXCEPT ![r] = "done"]
    /\ UNCHANGED <<glink, gvalue, gcache, gsets, notG>>

GNext ==
    \/ \E r \in Runs, link \in CacheLinks : GetHashCall(r, link)
    \/ \E r \in Runs : GetHashGet(r)
    \/ \E r \in Runs : GetHashFile(r)
    \/ \E r \in Runs : GetHashSet(r)
    \/ \E r \in Runs : GetHashReturn(r)

-----------------------------------------------------------------------------
(***************************************************************************)
(* A subprocess run by resolve (for venv_resolve_deps) or by               *)
(* interrupt_handled_subprocess, and an interrupt arriving in the parent   *)
(***************************************************************************)

MaxLines == 2

\* lines an OS pipe holds before a write to it blocks
PipeCap == 1

\* the output the subprocess will produce before it exits: lines to stdout
\* and lines to stderr
ChildPlans == [out : 0..MaxLines, err : 0..MaxLines]

NoOutput == [plan |-> [out |-> 0, err |-> 0], out_written |-> 0, out_pipe |-> 0,
             err_closed |-> FALSE]

NotRead == [at |-> "not read", lines |-> 0]

SubprocessModes == {"resolve", "interrupt_handled_subprocess"}

Interrupts == {"KeyboardInterrupt", "SystemExit"}

SInit ==
    /\ spc = "start"
    /\ smode \in SubprocessModes
    /\ child = "none"
    /\ crc = 0
    /\ cwritten = 0
    /\ spipe = 0
    /\ serr = 0
    /\ ssignal = 0
    /\ swaited = FALSE
    /\ scancel = "none"
    /\ sout = "none"
    /\ cio = NoOutput
    /\ sstdout = NotRead

SIdle ==
    /\ spc = "idle"
    /\ smode = "resolve"
    /\ child = "none"
    /\ crc = 0
    /\ cwritten = 0
    /\ spipe = 0
    /\ serr = 0
    /\ ssignal = 0
    /\ swaited = FALSE
    /\ scancel = "none"
    /\ sout = "none"
    /\ cio = NoOutput
    /\ sstdout = NotRead

\* resolve, line 1119: subprocess_run(..., block=False) is subprocess.Popen;
\* interrupt_handled_subprocess, lines 2252-2257: obj = run(...); yield obj
Spawn(plan) ==
    /\ spc = "start"
    /\ child' = "running"
    /\ cio' = [cio EXCEPT !.plan = plan]
    /\ spc' = IF smode = "resolve" THEN "reading" ELSE "body"
    /\ UNCHANGED <<smode, crc, cwritten, spipe, serr, ssignal, swaited, scancel, sout, sstdout, notS>>

\* the subprocess has produced all the output it was going to produce
ChildDone == cio.plan.out = cio.out_written /\ cio.plan.err = cwritten

\* the subprocess writes a line to stdout, which blocks while the pipe is full
ChildWriteStdout ==
    /\ child = "running"
    /\ cio.out_written < cio.plan.out
    /\ cio.out_pipe < PipeCap
    /\ cio' = [cio EXCEPT !.out_written = @ + 1, !.out_pipe = @ + 1]
    /\ UNCHANGED <<spc, smode, child, crc, cwritten, spipe, serr, ssignal, swaited, scancel,
                   sout, sstdout, notS>>

\* the subprocess closes its stderr while it is still running
ChildCloseStderr ==
    /\ child = "running"
    /\ cio.plan.err = cwritten
    /\ ~cio.err_closed
    /\ cio' = [cio EXCEPT !.err_closed = TRUE]
    /\ UNCHANGED <<spc, smode, child, crc, cwritten, spipe, serr, ssignal, swaited, scancel,
                   sout, sstdout, notS>>

\* the subprocess writes a line to stderr, which blocks while the pipe is full
ChildWrite ==
    /\ child = "running"
    /\ cwritten < cio.plan.err
    /\ spipe < PipeCap
    /\ cwritten' = cwritten + 1
    /\ spipe' = spipe + 1
    /\ UNCHANGED <<spc, smode, child, crc, serr, ssignal, swaited, scancel, sout, cio, sstdout, notS>>

\* the subprocess ends by itself
ChildExit(rc) ==
    /\ child = "running"
    /\ ChildDone
    /\ child' = "exited"
    /\ crc' = rc
    /\ cio' = [cio EXCEPT !.err_closed = TRUE]
    /\ UNCHANGED <<spc, smode, cwritten, spipe, serr, ssignal, swaited, scancel, sout, sstdout, notS>>

\* the subprocess ends on the signal os.kill delivered (returncode -SIGINT)
ChildInterrupted ==
    /\ child = "running"
    /\ ssignal > 0
    /\ child' = "exited"
    /\ crc' = -2
    /\ cio' = [cio EXCEPT !.err_closed = TRUE]
    /\ UNCHANGED <<spc, smode, cwritten, spipe, serr, ssignal, swaited, scancel, sout, sstdout, notS>>

\* resolve, lines 1122-1128: one iteration of the loop over c.stderr.readline
ResolveReadline ==
    /\ spc = "reading"
    /\ spipe > 0
    /\ spipe' = spipe - 1
    /\ serr' = serr + 1
    /\ UNCHANGED <<spc, smode, child, crc, cwritten, ssignal, swaited, scancel, sout, cio, sstdout, notS>>

\* resolve, line 1122: readline returns "" at end of file, that is when the
\* pipe is empty and the subprocess has closed its end
ResolveEof ==
    /\ spc = "reading"
    /\ spipe = 0
    /\ cio.err_closed
    /\ spc' = "wait"
    /\ UNCHANGED <<smode, child, crc, cwritten, spipe, serr, ssignal, swaited, scancel, sout, cio, sstdout, notS>>

\* resolve with line 1130 left out: the parent goes on without waiting
c_wait_skipped(child_state) == TRUE

\* resolve, line 1130: c.wait() returns when the subprocess has exited
c_wait(child_state) == child_state = "exited"

\* resolve, lines 1130-1132: c.wait(); returncode = c.poll(); c.stdout.read()
ResolveWait ==
    /\ spc = "wait"
    /\ c_wait(child)
    /\ swaited' = TRUE
    /\ sstdout' = [at |-> child, lines |-> cio.out_pipe]
    /\ cio' = [cio EXCEPT !.out_pipe = 0]
    /\ spc' = "check"
    /\ UNCHANGED <<smode, child, crc, cwritten, spipe, serr, ssignal, scancel, sout, notS>>

\* resolve, lines 1133-1142: sys.exit(returncode) or return
ResolveFinish ==
    /\ spc = "check"
    /\ IF crc # 0
       THEN spc' = "raised" /\ sout' = "SystemExit"
       ELSE spc' = "returned" /\ sout' = "returned"
    /\ UNCHANGED <<smode, child, crc, cwritten, spipe, serr, ssignal, swaited, scancel, cio, sstdout, notS>>

\* the with-block around interrupt_handled_subprocess ends normally, line 2257
BodyEnd ==
    /\ spc = "body"
    /\ spc' = "returned"
    /\ sout' = "returned"
    /\ UNCHANGED <<smode, child, crc, cwritten, spipe, serr, ssignal, swaited, scancel, cio, sstdout, notS>>

\* KeyboardInterrupt or SystemExit is raised in the parent: resolve has no
\* handler (1119-1130), interrupt_handled_subprocess has one (2258)
Cancel(kind) ==
    /\ spc \in {"reading", "wait", "body"}
    /\ scancel' = kind
    /\ IF smode = "resolve"
       THEN spc' = "raised" /\ sout' = kind
       ELSE spc' = "handler" /\ sout' = sout
    /\ UNCHANGED <<smode, child, crc, cwritten, spipe, serr, ssignal, swaited, cio, sstdout, notS>>

\* interrupt_handled_subprocess, lines 2259-2262: os.kill(obj.pid, ...)
HandlerKill ==
    /\ spc = "handler"
    /\ ssignal' = ssignal + 1
    /\ spc' = "obj.wait"
    /\ UNCHANGED <<smode, child, crc, cwritten, spipe, serr, swaited, scancel, sout, cio, sstdout, notS>>

\* interrupt_handled_subprocess, line 2263: obj.wait()
HandlerWait ==
    /\ spc = "obj.wait"
    /\ child = "exited"
    /\ swaited' = TRUE
    /\ spc' = "reraise"
    /\ UNCHANGED <<smode, child, crc, cwritten, spipe, serr, ssignal, scancel, sout, cio, sstdout, notS>>

\* interrupt_handled_subprocess, line 2264: raise
HandlerRaise ==
    /\ spc = "reraise"
    /\ spc' = "raised"
    /\ sout' = scancel
    /\ UNCHANGED <<smode, child, crc, cwritten, spipe, serr, ssignal, swaited, scancel, cio, sstdout, notS>>

SNext ==
    \/ \E plan \in ChildPlans : Spawn(plan)
    \/ ChildWriteStdout
    \/ ChildCloseStderr
    \/ ChildWrite
    \/ \E rc \in ReturnCodes : ChildExit(rc)
    \/ ChildInterrupted
    \/ ResolveReadline
    \/ ResolveEof
    \/ ResolveWait
    \/ ResolveFinish
    \/ BodyEnd
    \/ \E kind \in Interrupts : Cancel(kind)
    \/ HandlerKill
    \/ HandlerWait
    \/ HandlerRaise

-----------------------------------------------------------------------------
(***************************************************************************)
(* Calls of pep423_name (once, and again on its own result) and of         *)
(* translate_markers, on bounded inputs                                    *)
(***************************************************************************)

MaxNameLen == 3

NameAlphabet == {"A", "a", "b", "_", "-"}

\* a name that holds every item of VCS_LIST and SCHEME_LIST
AllSchemesName ==
    <<"A", "_", "g", "i", "t", "s", "v", "n", "h", "g", "b", "z", "r">>
    \o <<"h", "t", "t", "p", ":", "/", "/">> \o <<"h", "t", "t", "p", "s", ":", "/", "/">>
    \o <<"f", "t", "p", ":", "/", "/">> \o <<"f", "t", "p", "s", ":", "/", "/">>
    \o <<"f", "i", "l", "e", ":", "/", "/">>

Names == SeqsUpTo(NameAlphabet, MaxNameLen) \cup {AllSchemesName}

\* values of a marker key in a Pipfile entry: "== '3.8'", '== "3.8"', and the
\* bare "3.8"
PythonVersionValues ==
    { [op |-> "==", val |-> "3.8", q |-> "single"],
      [op |-> "==", val |-> "3.8", q |-> "double"],
      [op |-> "", val |-> "3.8", q |-> "none"] }

BaseEntries ==
    { <<>>,
      [version |-> <<"==", "1.2.0">>],
      [version |-> <<"==", "1.2.0">>, markers |-> LinuxOnly],
      [markers |-> NoneMarker, editable |-> TRUE] }

MarkerEntries ==
    LET with_pv == BaseEntries \cup {DictSet(e, "python_version", v) : e \in BaseEntries, v \in PythonVersionValues}
    IN  with_pv
        \cup {DictSet(e, "os_name", [op |-> "==", val |-> "posix", q |-> "single"]) : e \in with_pv}
        \cup {StrEntry(<<"*">>)}

\* requirements handed to collect_hashes: pinned ones, and one for each way
\* of not being pinned, without and with an original link
HashIreqs ==
    { Ireq(PkgNames[1], "plain", FALSE, <<"==", "1.0">>, NoLink),
      Ireq(PkgNames[1], "plain", FALSE, <<"===", "1.0">>, NoLink),
      Ireq(PkgNames[1], "plain", FALSE, <<"==", "1.*">>, NoLink),
      Ireq(PkgNames[1], "plain", FALSE, <<">=", "1.0">>, NoLink),
      Ireq(PkgNames[1], "plain", FALSE, <<">=", "1.0", "<", "2.0">>, NoLink),
      Ireq(PkgNames[1], "plain", FALSE, <<>>, NoLink),
      Ireq(PkgNames[1], "plain", TRUE, <<"==", "1.0">>, NoLink),
      Ireq(PkgNames[1], "file", FALSE, <<>>, LinkSha),
      Ireq(PkgNames[1], "file", FALSE, <<>>, LinkMd5),
      Ireq(PkgNames[1], "file", FALSE, <<"==", "1.0">>, LinkMd5),
      Ireq(PkgNames[1], "file", TRUE, <<>>, LinkBare),
      Ireq(PkgNames[1], "vcs", FALSE, <<>>, LinkBare),
      Ireq(PkgNames[1], "dir", TRUE, <<>>, LinkBare) }

NoIreq == [ireq |-> Ireq(<<>>, "plain", FALSE, <<>>, NoLink), world |-> <<>>, cache |-> <<>>]

HashCalls ==
    [ireq : HashIreqs, world : {w \in HashWorlds : w.skipped = <<>>}, cache : Caches]

FInit ==
    /\ fpc = "start"
    /\ \/ fkind = "pep423_name" /\ fName \in Names /\ fEntry = <<>> /\ fIreq = NoIreq
       \/ fkind = "translate_markers" /\ fName = <<>> /\ fEntry \in MarkerEntries /\ fIreq = NoIreq
       \/ fkind = "collect_hashes" /\ fName = <<>> /\ fEntry = <<>> /\ fIreq \in HashCalls
    /\ fHashes = {}
    /\ fName1 = <<>>
    /\ fName2 = <<>>
    /\ fOut = <<>>
    /\ fExc = "none"

FIdle ==
    /\ fpc = "idle"
    /\ fIreq = NoIreq
    /\ fHashes = {}
    /\ fkind = "none"
    /\ fName = <<>>
    /\ fEntry = <<>>
    /\ fName1 = <<>>
    /\ fName2 = <<>>
    /\ fOut = <<>>
    /\ fExc = "none"

\* pep423_name(name)
Pep423Call ==
    /\ fpc = "start"
    /\ fkind = "pep423_name"
    /\ fName1' = pep423_name(fName)
    /\ fpc' = "once"
    /\ UNCHANGED <<fkind, fName, fName2, fEntry, fOut, fExc, fIreq, fHashes, notF>>

\* pep423_name applied to its own result
Pep423Again ==
    /\ fpc = "once"
    /\ fName2' = pep423_name(fName1)
    /\ fpc' = "twice"
    /\ UNCHANGED <<fkind, fName, fName1, fEntry, fOut, fExc, fIreq, fHashes, notF>>

\* translate_markers(pipfile_entry)
TranslateCall ==
    /\ fpc = "start"
    /\ fkind = "translate_markers"
    /\ IF translate_markers_exc(fEntry) # "none"
       THEN /\ fpc' = "raised"
            /\ fExc' = translate_markers_exc(fEntry)
            /\ UNCHANGED fOut
       ELSE /\ fpc' = "returned"
            /\ fOut' = translate_markers(fEntry)
            /\ UNCHANGED fExc
    /\ UNCHANGED <<fkind, fName, fName1, fName2, fEntry, fIreq, fHashes, notF>>

\* Resolver.collect_hashes(ireq)
CollectHashesCall ==
    /\ fpc = "start"
    /\ fkind = "collect_hashes"
    /\ IF HashSource(fIreq.ireq, fIreq.world) = "raise"
       THEN /\ fpc' = "raised"
            /\ fExc' = fIreq.world.pypi.exc
            /\ UNCHANGED fHashes
       ELSE /\ fpc' = "returned"
            /\ fHashes' = collect_hashes(fIreq.ireq, fIreq.world, fIreq.cache)
            /\ UNCHANGED fExc
    /\ UNCHANGED <<fkind, fName, fName1, fName2, fEntry, fOut, fIreq, notF>>

FNext ==
    \/ CollectHashesCall
    \/ Pep423Call
    \/ Pep423Again
    \/ TranslateCall

-----------------------------------------------------------------------------
(***************************************************************************)
(* Concurrent calls of mkdir_p on one path and its parents                 *)
(***************************************************************************)

\* the path has MaxDepth components; prefix i is its first i components, and
\* prefix 0 (the empty head or the root) needs no creating
MaxDepth == 2

Prefixes == 1..MaxDepth

Callers == {"c1", "c2"}

\* a file system: below something that is not a directory there is nothing
FileSystems ==
    {f \in [Prefixes -> {"absent", "dir", "file"}] :
        \A i \in Prefixes : (i > 1 /\ f[i] # "absent") => f[i - 1] = "dir"}

NoCall == [target |-> 1, lvl |-> 1, phase |-> "idle", errno |-> "none", result |-> "none"]

NewCall(t) == [target |-> t, lvl |-> t, phase |-> "isdir", errno |-> "none", result |-> "running"]

MInit ==
    /\ mfs \in FileSystems
    /\ mcalls \in [Callers -> {NewCall(t) : t \in Prefixes}]

MIdle ==
    /\ mfs = [i \in Prefixes |-> "absent"]
    /\ mcalls = [c \in Callers |-> NoCall]

\* os.path.isdir(head) for the head of prefix i
HeadIsDir(fs, i) == i = 1 \/ fs[i - 1] = "dir"

\* the errno os.mkdir fails with, "none" when it makes the directory
os_mkdir_errno(fs, i) ==
    IF fs[i] # "absent" THEN "EEXIST"
    ELSE IF ~HeadIsDir(fs, i) THEN "ENOENT"
    ELSE "none"

\* mkdir_p with a bare `raise` in the handler
reraised_always(e) == e # "none"

\* mkdir_p, lines 1474-1475: if exn.errno != errno.EEXIST: raise
reraised(e) == e \notin {"none", "EEXIST"}

\* a frame of mkdir_p ends: the call returns, or the caller's frame goes on
\* at `if tail:` (line 1466)
FrameReturns(call) ==
    IF call.lvl = call.target
    THEN [call EXCEPT !.phase = "done", !.result = "returned"]
    ELSE [call EXCEPT !.lvl = @ + 1, !.phase = "mkdir"]

\* mkdir_p, line 1453: if os.path.isdir(newdir): pass
MkdirIsDir(c) ==
    /\ mcalls[c].phase = "isdir"
    /\ mcalls' = [mcalls EXCEPT ![c] =
                    IF mfs[mcalls[c].lvl] = "dir" THEN FrameReturns(mcalls[c])
                    ELSE [mcalls[c] EXCEPT !.phase = "isfile"]]
    /\ UNCHANGED <<mfs, notM>>

\* mkdir_p, lines 1455-1460: elif os.path.isfile(newdir): raise OSError
MkdirIsFile(c) ==
    /\ mcalls[c].phase = "isfile"
    /\ mcalls' = [mcalls EXCEPT ![c] =
                    IF mfs[mcalls[c].lvl] = "file"
                    THEN [mcalls[c] EXCEPT !.phase = "done", !.result = "OSError"]
                    ELSE [mcalls[c] EXCEPT !.phase = "head"]]
    /\ UNCHANGED <<mfs, notM>>

\* mkdir_p, lines 1463-1465: if head and not os.path.isdir(head): mkdir_p(head)
MkdirHead(c) ==
    /\ mcalls[c].phase = "head"
    /\ mcalls' = [mcalls EXCEPT ![c] =
                    IF HeadIsDir(mfs, mcalls[c].lvl) THEN [mcalls[c] EXCEPT !.phase = "mkdir"]
                    ELSE [mcalls[c] EXCEPT !.lvl = @ - 1, !.phase = "isdir"]]
    /\ UNCHANGED <<mfs, notM>>

\* mkdir_p, lines 1469-1476: the frame after os.mkdir ended with errno e
MadeOrFailed(call, e) ==
    IF reraised(e)
    THEN [call EXCEPT !.phase = "done", !.result = "OSError", !.errno = e]
    ELSE IF e = "none" THEN FrameReturns(call)
    ELSE FrameReturns([call EXCEPT !.errno = e])

\* mkdir_p, lines 1466-1476: os.mkdir(newdir) and the handler of OSError
MkdirMake(c) ==
    /\ mcalls[c].phase = "mkdir"
    /\ mfs' = IF os_mkdir_errno(mfs, mcalls[c].lvl) = "none"
              THEN [mfs EXCEPT ![mcalls[c].lvl] = "dir"]
              ELSE mfs
    /\ mcalls' = [mcalls EXCEPT ![c] =
                    MadeOrFailed(mcalls[c], os_mkdir_errno(mfs, mcalls[c].lvl))]
    /\ UNCHANGED notM

MNext ==
    \/ \E c \in Callers : MkdirIsDir(c)
    \/ \E c \in Callers : MkdirIsFile(c)
    \/ \E c \in Callers : MkdirHead(c)
    \/ \E c \in Callers : MkdirMake(c)

-----------------------------------------------------------------------------
(***************************************************************************)
(* temp_environ around the block of venv_resolve_deps that prepares the    *)
(* environment of the resolver subprocess                                  *)
(***************************************************************************)

ResolverEnvNames ==
    {"PIPENV_PYPI_MIRROR", "PIPENV_VERBOSITY", "PIPENV_REQ_DIR", "PIP_NO_INPUT",
     "PIPENV_SITE_DIR", "PIPENV_KEEP_OUTDATED", "PIPENV_PACKAGES"}

\* os.environ when venv_resolve_deps is called: some of the variables are
\* set by the user, the others are not there
EntryEnvirons ==
    {[k \in ResolverEnvNames |-> IF k \in S THEN "orig" ELSE Absent] :
        S \in SUBSET {"PIPENV_PYPI_MIRROR", "PIPENV_VERBOSITY", "PIPENV_SITE_DIR"}}

\* what ends the block early: sys.exit in resolve, an interrupt, or an error
\* of one of the calls in the block
BlockExceptions == {"SystemExit", "KeyboardInterrupt", "RuntimeError"}

\* venv_resolve_deps, lines 1278-1301: the assignments to os.environ in the
\* order of the code; a value of Absent is os.environ.pop(key, None)
EnvironAssignments(args) ==
    << [key |-> "PIPENV_PYPI_MIRROR", val |-> "mirror", on |-> args.pypi_mirror],
       [key |-> "PIPENV_VERBOSITY", val |-> "0", on |-> TRUE],
       [key |-> "PIPENV_REQ_DIR", val |-> "req_dir", on |-> TRUE],
       [key |-> "PIP_NO_INPUT", val |-> "1", on |-> TRUE],
       [key |-> "PIPENV_SITE_DIR", val |-> IF args.site_dir THEN "site" ELSE Absent,
        on |-> TRUE],
       [key |-> "PIPENV_KEEP_OUTDATED", val |-> "1", on |-> args.keep_outdated],
       [key |-> "PIPENV_PACKAGES", val |-> "constraints", on |-> TRUE] >>

\* one assignment applied to os.environ
Assigned(env, a) ==
    IF ~a.on THEN env
    ELSE IF a.val = Absent THEN DelEnv(env, a.key)
    ELSE SetEnv(env, a.key, a.val)

\* temp_environ's finally without os.environ.clear()
environ_updated(env, saved) ==
    [k \in DOMAIN env |-> IF saved[k] # Absent THEN saved[k] ELSE env[k]]

\* temp_environ, lines 1689-1691: os.environ.clear(); os.environ.update(environ)
environ_restored(env, saved) ==
    environ_updated([k \in DOMAIN env |-> Absent], saved)

TInit ==
    /\ tpc = "enter"
    /\ tIn \in [environ : EntryEnvirons, pypi_mirror : BOOLEAN, site_dir : BOOLEAN,
                keep_outdated : BOOLEAN]
    /\ tenv = tIn.environ
    /\ tsnap = [k \in ResolverEnvNames |-> Absent]
    /\ tstep = 1
    /\ texc = "none"

TIdle ==
    /\ tpc = "idle"
    /\ tIn = [environ |-> [k \in ResolverEnvNames |-> Absent], pypi_mirror |-> FALSE,
              site_dir |-> FALSE, keep_outdated |-> FALSE]
    /\ tenv = [k \in ResolverEnvNames |-> Absent]
    /\ tsnap = [k \in ResolverEnvNames |-> Absent]
    /\ tstep = 1
    /\ texc = "none"

\* temp_environ, lines 1685-1687: environ = dict(os.environ); yield
TempEnter ==
    /\ tpc = "enter"
    /\ tsnap' = tenv
    /\ tpc' = "body"
    /\ UNCHANGED <<tIn, tenv, tstep, texc, notT>>

\* venv_resolve_deps, lines 1278-1301: the next assignment to os.environ
BlockAssign ==
    /\ tpc = "body"
    /\ tstep <= Len(EnvironAssignments(tIn))
    /\ tenv' = Assigned(tenv, EnvironAssignments(tIn)[tstep])
    /\ tstep' = tstep + 1
    /\ UNCHANGED <<tpc, tIn, tsnap, texc, notT>>

\* venv_resolve_deps, lines 1303-1312: resolve returns and the block ends
BlockEnd ==
    /\ tpc = "body"
    /\ tstep > Len(EnvironAssignments(tIn))
    /\ tpc' = "finally"
    /\ UNCHANGED <<tIn, tenv, tsnap, tstep, texc, notT>>

\* a call in the block raises: the exception is thrown into temp_environ
BlockRaise(exc) ==
    /\ tpc = "body"
    /\ texc' = exc
    /\ tpc' = "finally"
    /\ UNCHANGED <<tIn, tenv, tsnap, tstep, notT>>

\* temp_environ, lines 1689-1691: the finally clause, then the block is left
TempFinally ==
    /\ tpc = "finally"
    /\ tenv' = environ_restored(tenv, tsnap)
    /\ tpc' = IF texc = "none" THEN "ended" ELSE "raised"
    /\ UNCHANGED <<tIn, tsnap, tstep, texc, notT>>

TNext ==
    \/ TempEnter
    \/ BlockAssign
    \/ BlockEnd
    \/ \E exc \in BlockExceptions : BlockRaise(exc)
    \/ TempFinally

-----------------------------------------------------------------------------
(* Specifications: one per sub-machine, the others idle *)

InitResolveDeps == RDInit /\ ExIdle /\ VIdle /\ HIdle /\ GIdle /\ SIdle /\ FIdle /\ MIdle /\ TIdle

SpecResolveDeps == InitResolveDeps /\ [][RDNext]_vars

InitExpander == ExInit /\ RDIdle /\ VIdle /\ HIdle /\ GIdle /\ SIdle /\ FIdle /\ MIdle /\ TIdle

SpecExpander == InitExpander /\ [][ExNext]_vars

InitLock == VInit /\ RDIdle /\ ExIdle /\ HIdle /\ GIdle /\ SIdle /\ FIdle /\ MIdle /\ TIdle

SpecLock == InitLock /\ [][VNext]_vars

InitHashes == HInit /\ RDIdle /\ ExIdle /\ VIdle /\ GIdle /\ SIdle /\ FIdle /\ MIdle /\ TIdle

SpecHashes == InitHashes /\ [][HNext]_vars

InitHashCache == GInit /\ ExIdle /\ HIdle /\ RDIdle /\ VIdle /\ SIdle /\ FIdle /\ MIdle /\ TIdle

SpecHashCache == InitHashCache /\ [][GNext]_vars

InitSubprocess == SInit /\ ExIdle /\ GIdle /\ HIdle /\ RDIdle /\ VIdle /\ FIdle /\ MIdle /\ TIdle

SpecSubprocess == InitSubprocess /\ [][SNext]_vars

\* the subprocess and the parent both keep running while they can take a
\* step; an interrupt may or may not arrive
SubprocessFairness ==
    /\ WF_vars(\E plan \in ChildPlans : Spawn(plan))
    /\ WF_vars(ChildWriteStdout)
    /\ WF_vars(ChildWrite)
    /\ WF_vars(\E rc \in ReturnCodes : ChildExit(rc))
    /\ WF_vars(ResolveReadline)
    /\ WF_vars(ResolveEof)
    /\ WF_vars(ResolveWait)
    /\ WF_vars(ResolveFinish)

SpecSubprocessFair == InitSubprocess /\ [][SNext]_vars /\ SubprocessFairness

InitHelpers == FInit /\ ExIdle /\ GIdle /\ HIdle /\ RDIdle /\ SIdle /\ VIdle /\ MIdle /\ TIdle

SpecHelpers == InitHelpers /\ [][FNext]_vars

InitMkdir == MInit /\ ExIdle /\ FIdle /\ GIdle /\ HIdle /\ RDIdle /\ SIdle /\ VIdle /\ TIdle

SpecMkdir == InitMkdir /\ [][MNext]_vars

InitTempEnviron == TInit /\ ExIdle /\ FIdle /\ GIdle /\ HIdle /\ MIdle /\ RDIdle /\ SIdle /\ VIdle

SpecTempEnviron == InitTempEnviron /\ [][TNext]_vars

-----------------------------------------------------------------------------
(* Claims about resolve_deps *)

\* C1: resolve_deps makes at most two resolution attempts; the second attempt
\* has run if and only if the first raised a RuntimeError; when the second also
\* raises a RuntimeError the process exits with status 1; no third attempt.
C1_AtMostTwoAttempts ==
    /\ attempts <= 2
    /\ (attempts = 2 => IsRuntimeError(outcome[1].exc))
    /\ (RDEnded /\ IsRuntimeError(outcome[1].exc) => attempts = 2)
    /\ (RDEnded /\ rdIn.deps = "some" => attempts >= 1)
    /\ (RDEnded /\ IsRuntimeError(outcome[2].exc) => pc = "exited" /\ exitStatus = <<1>>)
    /\ (exitStatus # NoExit => attempts = 2 /\ IsRuntimeError(outcome[2].exc))

\* both passes raised RuntimeError and the process exited with status 1
C1_Witness ==
    /\ pc = "exited" /\ exitStatus = <<1>> /\ attempts = 2
    /\ IsRuntimeError(outcome[1].exc) /\ IsRuntimeError(outcome[2].exc)

\* C2: when Resolver.resolve raises ResolutionFailure in pass 1, resolve_deps
\* does not end after that single attempt: pass 2 has run.
C2_ResolutionFailureTriggersPass2 ==
    (RDEnded /\ outcome[1] = [exc |-> "ResolutionFailure", stage |-> "resolve"])
        => attempts = 2

\* C8: once resolve_deps has ended (returned, raised or exited), every
\* environment variable a resolution attempt sets has the value it had before.
C8_EnvironmentRestored ==
    RDEnded => \A n \in EnvNames : environ[n] = environ0[n]

\* the stage of actually_resolve_deps that is running, "none" outside a pass
Running ==
    IF pc \in {"attempt1", "attempt2"} /\ stage \in 1..Len(Stages) THEN Stages[stage] ELSE "none"

Done(s) == \E i \in 1..Len(completed) : completed[i] = s

C19_EachPassStartsFresh ==
    \A k \in 1..Len(started) :
        started[k].req_dir = {} /\ started[k].lookups = NoLookups

-----------------------------------------------------------------------------
(* Claims about the lockfile merger and venv_resolve_deps *)

\* the records prepare_lockfile has taken from the loaded results so far
Processed ==
    IF vOut.parsed THEN SubSeq(vIn.results, 1, Len(vIn.results) - Len(vOut.loaded))
    ELSE <<>>

\* the last iteration of prepare_lockfile merged a record and did not raise
JustMerged ==
    /\ vpc \in {"merge", "returned"}
    /\ Processed # <<>>
    /\ DOMAIN Processed[Len(Processed)] # {}

LastRecord == Processed[Len(Processed)]

\* the lockfile entry under the last record's normalised name
LastLocked == lockfile["default"][pep423_name(LastRecord["name"])]

\* what the Pipfile declares as the version of the last record's package
LastDeclared == declared_version(matching_entry(LastRecord, vIn.pipfile))

ExactPin(v) == Len(v) = 2 /\ v[1] = "==" /\ v[2] \notin {"*", "1.*"}

OpenVersion(v) == v # <<>> /\ ~ExactPin(v)

\* the version the resolver reported, written with its "==" prefix
ResolvedVersion(dep) ==
    IF dep["version"][1] = "==" THEN dep["version"] ELSE <<"==">> \o dep["version"]

PlainKeys(e) == DOMAIN e \ ({"markers"} \cup MarkerKeys)

\* the name the iteration for dep writes to, none when get_locked_dep raises
\* or the record is empty
NamedBy(dep, pipfile_section) ==
    IF DOMAIN dep = {} \/ get_locked_dep(dep, pipfile_section).raised # "none"
    THEN {}
    ELSE {get_locked_dep(dep, pipfile_section).name}

\* the entry new_e is old_e updated key by key with fresh, markers normalised
UpdatedKeywise(old_e, fresh, new_e) ==
    /\ PlainKeys(new_e) = PlainKeys(old_e) \cup PlainKeys(fresh)
    /\ \A k \in PlainKeys(fresh) : new_e[k] = fresh[k]
    /\ \A k \in PlainKeys(old_e) \ DOMAIN fresh : new_e[k] = old_e[k]
    /\ DOMAIN new_e \cap MarkerKeys = {}
    /\ "markers" \in DOMAIN new_e =>
           (MarkerTruthy(new_e["markers"]) /\ IsValidMarker(new_e["markers"]))

\* one iteration of prepare_lockfile seen as a step from section to section
MergeFrame(dep, pipfile_section, old_s, new_s) ==
    /\ DOMAIN new_s = DOMAIN old_s \cup NamedBy(dep, pipfile_section)
    /\ \A n \in DOMAIN old_s \ NamedBy(dep, pipfile_section) : new_s[n] = old_s[n]
    /\ \A n \in NamedBy(dep, pipfile_section) \cap DOMAIN old_s :
           (EntryTruthy(old_s[n]) /\ IsMapping(old_s[n]) /\ vpc' # "raised") =>
               UpdatedKeywise(old_s[n], get_locked_dep(dep, pipfile_section).entry, new_s[n])

\* C25: prepare_lockfile changes only the lockfile entries named by the
\* results: in every iteration the entries under other names and the other
\* sections stay as they are, and a pre-existing mapping entry under the
\* record's name is updated key by key (keys of the new entry take the new
\* value, the other keys keep the old one) with its markers normalised
C25_OnlyNamedEntriesChange ==
    [][(vpc = "merge" /\ vOut.loaded # <<>>) =>
          /\ \A sec \in DOMAIN lockfile \ {"default"} :
                 sec \in DOMAIN lockfile' /\ lockfile'[sec] = lockfile[sec]
          /\ MergeFrame(Head(vOut.loaded), vIn.pipfile,
                        lockfile["default"], lockfile'["default"])]_vars

\* a record was merged into a pre-existing mapping entry that had keys the
\* new entry lacks, and another record left that entry alone
C25_Witness ==
    /\ vpc = "returned"
    /\ Len(Processed) = 2
    /\ Processed[1] = [name |-> ResultName, version |-> <<"1.3.0">>]
    /\ Processed[2] = [name |-> OtherName, version |-> <<"2.0">>]
    /\ "default" \in DOMAIN lockfile0
    /\ pep423_name(PipfileKey) \in DOMAIN lockfile0["default"]
    /\ "os_name" \in DOMAIN lockfile0["default"][pep423_name(PipfileKey)]
    /\ "markers" \in DOMAIN lockfile["default"][pep423_name(PipfileKey)]
    /\ pep423_name(OtherName) \in DOMAIN lockfile["default"]

\* the Pipfile entry says nothing about markers
HasNoMarkers(entry) ==
    ~IsMapping(entry) \/ DOMAIN entry \cap ({"markers"} \cup MarkerKeys) = {}

\* the lockfile entry carries a marker
IncludesMarkers(e) ==
    \/ "markers" \in DOMAIN e /\ MarkerTruthy(e["markers"])
    \/ DOMAIN e \cap MarkerKeys # {}

\* C26: for a package that is in the Pipfile section without markers, the
\* lockfile entry after prepare_lockfile has merged its record includes no
\* markers, whatever the record or the entry that was there before carried
C26_NoMarkersWhenPipfileHasNone ==
    (/\ JustMerged
     /\ EntryTruthy(matching_entry(LastRecord, vIn.pipfile))
     /\ HasNoMarkers(matching_entry(LastRecord, vIn.pipfile)))
        => ~IncludesMarkers(LastLocked)

\* translate_markers, called by clean_resolved_dep for the record, raises
MarkerTranslationFails(dep, pipfile_section) ==
    /\ "name" \in DOMAIN dep
    /\ "markers" \in DOMAIN dep
    /\ MarkerTruthy(dep["markers"])
    /\ translate_markers_exc(IF EntryTruthy(matching_entry(dep, pipfile_section))
                             THEN matching_entry(dep, pipfile_section)
                             ELSE dep) # "none"

\* C24: an error raised while translating a marker propagates to the caller
\* of prepare_lockfile: the iteration in which clean_resolved_dep's call of
\* translate_markers raises ends the call with that error, it is not caught
\* and discarded
C24_MarkerErrorsPropagate ==
    [][(/\ vpc = "merge"
        /\ vOut.loaded # <<>>
        /\ MarkerTranslationFails(Head(vOut.loaded), vIn.pipfile))
          => (vpc' = "raised" /\ vOut'.raised \in {"TypeError", "InvalidMarker"})]_vars

\* C5: after prepare_lockfile has merged a record of a VCS or editable
\* requirement, the lockfile entry has no "version" key, whatever the Pipfile
\* entry or the lockfile entry that was there before declares
C5_NoVersionOnVcsOrEditable ==
    (JustMerged /\ (is_vcs(LastRecord) \/ DictGet(LastRecord, "editable", FALSE)))
        => "version" \notin DOMAIN LastLocked

\* C6: when venv_resolve_deps ends in a failure, the lockfile is exactly what
\* it was when the call began
C6_FailureLeavesLockfile ==
    vpc \in {"raised", "exited"} => lockfile = lockfile0

\* C7: once venv_resolve_deps has ended, on whatever path, the hand-off file
\* it created no longer exists
C7_HandoffFileRemoved ==
    (vpc \in {"returned", "raised", "exited"} /\ vOut.created) => handoff = NoFile

\* C15: when the resolution fails (the resolver subprocess exits non-zero, or
\* its hand-off file is missing or unparsable) venv_resolve_deps ends by
\* raising RuntimeError
C15_FailureRaisesRuntimeError ==
    (vpc \in {"raised", "exited"} /\ (vOut.returncode # <<0>> \/ ~vOut.parsed))
        => (vpc = "raised" /\ vOut.raised = "RuntimeError")

-----------------------------------------------------------------------------
(* Claims about hash collection and clean_results *)

\* <algo>:<hex>
WellFormedHash(h) ==
    Len(h) = 3 /\ h[1] \in {"sha256", "md5"} /\ h[2] = ":" /\ h[3] \in {"aa", "bb", "cc"}

\* ascending with no element twice
StrictlyAscending(hs) == \A i \in 1..(Len(hs) - 1) : HashLess(hs[i], hs[i + 1])

HashLists == {hresults[i]["hashes"] : i \in {j \in 1..Len(hresults) : "hashes" \in DOMAIN hresults[j]}}

\* C9: every hash list in the records of clean_results is in ascending order,
\* holds no hash twice, and each of its elements is <algo>:<hex>
C9_HashListsSortedUniqueWellFormed ==
    \A hs \in HashLists :
        /\ StrictlyAscending(hs)
        /\ \A i \in 1..Len(hs) : WellFormedHash(hs[i])

C9_Witness ==
    /\ hpc = "done"
    /\ hIn.world.pypi.ok
    /\ <<"aa">> \in hIn.world.pypi.digests
    /\ \E hs \in HashLists : Len(hs) = 2

\* C11: the list clean_results returns holds at most one record per package
\* name, names taken up to case and to "_" versus "-": two solver entries, or
\* a solver entry and a skipped entry, of one package end up in one record
C11_OneRecordPerName ==
    \A i, j \in 1..Len(hresults) :
        pep423_name(hresults[i]["name"]) = pep423_name(hresults[j]["name"]) => i = j

\* the solver reported one package under two spellings and both were cleaned
\* C12: a failed index metadata query (connection failure, timeout, non-JSON
\* body, missing key) never raises out of collect_hashes: the hashing run never
\* ends with the query's exception
C12_IndexFailureNeverRaises ==
    ~(hpc = "raised" /\ ~hIn.world.pypi.ok)

C11_Witness ==
    /\ hpc = "done"
    /\ Len(hIn.tree) = 2
    /\ hIn.tree[1].name # hIn.tree[2].name
    /\ pep423_name(hIn.tree[1].name) = pep423_name(hIn.tree[2].name)
    /\ hIn.world.skipped = <<>>
    /\ Len(hresults) = 1

\* C20: in the list clean_results returns, each name of the skipped map has
\* exactly one record and it is the one built from the skipped entry, solver
\* entries of that name being dropped; and every other record comes from a
\* solver entry that is neither skipped nor an editable VCS requirement
\* installed through a non-direct URL
C20_SkippedAndEditableVcsDropped ==
    hpc = "done" =>
        /\ \A k \in DOMAIN hIn.world.skipped :
              \E i \in 1..Len(hresults) :
                  /\ hresults[i] = translate_markers(
                         _clean_skipped_result(k, hIn.world.skipped[k], hIn.world, hcache))
                  /\ \A j \in 1..Len(hresults) : hresults[j]["name"] = k => j = i
        /\ \A i \in 1..Len(hresults) :
              \/ hresults[i]["name"] \in DOMAIN hIn.world.skipped
              \/ \E n \in 1..Len(hIn.tree) :
                    /\ pep423_name(hIn.tree[n].name) = hresults[i]["name"]
                    /\ pep423_name(hIn.tree[n].name) \notin DOMAIN hIn.world.skipped
                    /\ ~(hIn.tree[n].kind = "vcs" /\ hIn.tree[n].editable
                                                /\ ~hIn.tree[n].is_direct_url)

\* a run has ended whose solver output held an entry of a skipped name and an
\* editable VCS entry with a non-direct URL
C20_Witness ==
    /\ hpc = "done"
    /\ Len(hIn.tree) = 2
    /\ pep423_name(hIn.tree[1].name) \in DOMAIN hIn.world.skipped
    /\ hIn.tree[2].kind = "vcs" /\ hIn.tree[2].editable /\ ~hIn.tree[2].is_direct_url
    /\ Len(hresults) = 1

\* C22: when the solver fails inside Resolver.resolve the call raises
\* ResolutionFailure and leaves self.results None and self.resolved_tree
\* empty as they were; a resolve_hashes after it collects no hashes
C22_SolverFailureLeavesResolver ==
    hpc \in {"ResolutionFailure", "hashed after failure"} =>
        /\ self_results = NoResults
        /\ resolved_tree = <<>>
        /\ self_hashes = <<>>

\* the solver failed on a non-empty set of requirements and resolve_hashes
\* was called afterwards
C22_Witness ==
    /\ hpc = "hashed after failure"
    /\ Len(hIn.tree) = 2
    /\ hIn.world.candidates # {}

-----------------------------------------------------------------------------
(* Claims about the hash cache shared by concurrent runs *)

\* C13: under any interleaving of get_hash calls by concurrent runs for one
\* URL, the cache entry of the URL is written at most once, and all callers
\* that have returned hold the same digest
C13_EntryWrittenOnceSameDigest ==
    /\ \A u \in CacheUrls : gsets[u] <= 1
    /\ \A r1, r2 \in Runs :
          gpc[r1] = "done" /\ gpc[r2] = "done" /\ glink[r1].url = glink[r2].url
              => gret[r1] = gret[r2]

-----------------------------------------------------------------------------
(* Claims about subprocesses and interrupts *)

\* C14: once the parent has propagated an interrupt (KeyboardInterrupt or
\* SystemExit) that arrived while the subprocess ran, the subprocess has been
\* sent a signal and waited for and is no longer running, under resolve as
\* under interrupt_handled_subprocess
C14_NoChildSurvivesInterrupt ==
    (spc = "raised" /\ scancel # "none")
        => (child # "running" /\ swaited)

\* C27: resolve reads the subprocess's stdout only after the subprocess has
\* exited, has by then consumed every stderr line the subprocess produced,
\* and never returns before the subprocess has exited
C27_StdoutReadAfterExit ==
    smode = "resolve" =>
        /\ sstdout.at \in {"not read", "exited"}
        /\ serr <= cwritten
        /\ sstdout.at # "not read" => (serr = cwritten /\ sstdout.lines = cio.out_written)
        /\ sout = "returned" => (child = "exited" /\ sstdout.at = "exited")

\* resolve has returned after a subprocess that wrote to stdout and stderr
C27_Witness ==
    /\ smode = "resolve"
    /\ sout = "returned"
    /\ serr = MaxLines
    /\ sstdout = [at |-> "exited", lines |-> 1]

\* C28: when the subprocess writes finite output and exits when it has
\* written it, resolve always ends: parent and subprocess never block on
\* each other forever over the bounded pipes
C28_ResolveTerminates ==
    (smode = "resolve" /\ spc = "reading") ~> (spc \in {"returned", "raised"})

-----------------------------------------------------------------------------
(* Claims about pep423_name and translate_markers *)

\* C16: pep423_name is idempotent: applied to its own result it returns that
\* result, for every name
C16_Pep423Idempotent ==
    fpc = "twice" => fName2 = fName1

\* a name with upper case and "_" has gone through pep423_name twice
C16_Witness ==
    /\ fpc = "twice"
    /\ fName = <<"A", "_", "b">>
    /\ fName1 = <<"a", "-", "b">>

\* the entry has a marker key of its own (python_version, os_name, ...)
HasMarkerKey(entry) == IsMapping(entry) /\ DOMAIN entry \cap MarkerKeys # {}

\* the value of a marker key is the bare value, without operator and quotes
HasBareValue(entry) == \E m \in DOMAIN entry \cap MarkerKeys : entry[m].op = ""

\* out is entry with its marker keys folded into one single-quoted 'markers'
\* string and every other key as it was
WellTranslated(entry, out) ==
    /\ DOMAIN out = (DOMAIN entry \ MarkerKeys) \cup {"markers"}
    /\ \A k \in DOMAIN entry \ (MarkerKeys \cup {"markers"}) : out[k] = entry[k]
    /\ \A i \in 1..Len(out["markers"]) : out["markers"][i].q = "single"
    /\ \A m \in DOMAIN entry \cap MarkerKeys :
          \E i \in 1..Len(out["markers"]) :
              out["markers"][i].key = m /\ out["markers"][i].val = entry[m].val

\* {"markers": "python_version == '3.8'"}
PythonVersion38 == [markers |-> <<[key |-> "python_version", val |-> "3.8", q |-> "single"]>>]

CollectReturned == fkind = "collect_hashes" /\ fpc = "returned"

-----------------------------------------------------------------------------
(* Claims about Resolver.get_deps_from_req *)

ExReturned == exOut.raised = "none"

\* the requirement's name is keyed in the returned constraint set / locked map
InConstraints(n) == \E c \in exOut.constraints : c.name = n
InLocked(n) == pep423_name(n) \in DOMAIN exOut.locked

\* the requirement takes the plain-index branch, its marker is false and the
\* finder has no candidate: "it will be skipped"
ExSkipped ==
    /\ exIn.req.kind \in {"plain", "wheel"}
    /\ MarkerExcludes(exIn.req.marker)
    /\ ~exIn.world.best

MarkerFalseDeps ==
    IF exIn.req.kind = "plain"
    THEN IF MarkerExcludes(exIn.req.marker) THEN {exIn.req.name} ELSE {}
    ELSE IF exIn.req.kind = "wheel" \/ ~RequirementsRead(exIn.req, exIn.resolve_vcs) THEN {}
    ELSE {exIn.world.requires[1][i].name : i \in
            {j \in 1..Len(exIn.world.requires[1]) :
                MarkerExcludes(exIn.world.requires[1][j].marker)}}

IsPinnedEntry(e) ==
    /\ "version" \in DOMAIN e
    /\ Len(e["version"]) = Len(<<"==">> \o BestVersion)
    /\ e["version"][1] = "=="

NoExcludedConstraint == \A c \in exOut.constraints : ~MarkerExcludes(c.marker)

OwnVersion ==
    IF exIn.req.specifiers # <<>> THEN exIn.req.specifiers ELSE <<"==">> \o SetupVersion

\* a VCS, URL or local requirement whose entry came back in the locked map,
\* with the version from its specifier or from the build metadata
SourceEntryLocked ==
    /\ InLocked(exIn.req.name)
    /\ (exIn.req.kind = "file" /\ (exIn.req.specifiers # <<>> \/ exIn.world.has_version))
          => exOut.locked[pep423_name(exIn.req.name)]["version"] = OwnVersion

\* C21: a VCS, URL or local requirement's own entry is in the locked map
\* get_deps_from_req returns, with its specifier or the metadata version as
\* version when it is not VCS; and the call returns with that entry also when
\* the VCS checkout fails
C21_SourceEntryAlwaysLocked ==
    (exIn.req.kind \in {"vcs", "file"} /\ exOut.raised # "not called") =>
        /\ ExReturned => SourceEntryLocked
        /\ (exIn.req.kind = "vcs" /\ ~exIn.world.checkout_ok) => (ExReturned /\ SourceEntryLocked)


-----------------------------------------------------------------------------
(* Claims about mkdir_p *)

\* a regular file is at the path or at one of its parents
FileInTheWay(t) == \E i \in 1..t : mfs[i] = "file"

\* C29: under every interleaving of concurrent mkdir_p calls on one path or
\* on paths sharing missing parents, with no regular file in the way, every
\* call completes without raising and the directory then exists; a call on a
\* path where a regular file is raises OSError
C29_ConcurrentMkdirSucceeds ==
    \A c \in Callers :
        /\ ~FileInTheWay(mcalls[c].target) => mcalls[c].result # "OSError"
        /\ (mcalls[c].phase = "done" /\ ~FileInTheWay(mcalls[c].target))
              => (mcalls[c].result = "returned" /\ mfs[mcalls[c].target] = "dir")
        /\ (mcalls[c].phase = "done" /\ mfs[mcalls[c].target] = "file")
              => mcalls[c].result = "OSError"

\* two calls on the same path have both returned, one of them after os.mkdir
\* found the directory the other had made in the meantime
C29_Witness ==
    /\ \A c \in Callers : mcalls[c].result = "returned" /\ mcalls[c].target = MaxDepth
    /\ \E c \in Callers : mcalls[c].errno = "EEXIST"


-----------------------------------------------------------------------------
(* Claims about temp_environ *)

\* C30: after a temp_environ block has ended, normally or by exception, the
\* process environment equals its content at entry to the block: variables
\* added inside are gone, changed ones have their old value and deleted ones
\* are back; so is every variable venv_resolve_deps set for the subprocess
C30_EnvironmentAsAtEntry ==
    tpc \in {"ended", "raised"} => tenv = tIn.environ

\* the block was left by an exception after it had added, changed and
\* deleted variables
C30_Witness ==
    /\ tpc = "raised"
    /\ texc = "SystemExit"
    /\ tstep > Len(EnvironAssignments(tIn))
    /\ tIn.pypi_mirror /\ tIn.keep_outdated /\ ~tIn.site_dir
    /\ tIn.environ["PIPENV_VERBOSITY"] = "orig"
    /\ tIn.environ["PIPENV_SITE_DIR"] = "orig"
    /\ tIn.environ["PIPENV_PYPI_MIRROR"] = Absent
    /\ tenv["PIPENV_SITE_DIR"] = "orig"
    /\ tenv["PIPENV_REQ_DIR"] = Absent

=============================================================================
